---- MODULE Spec2Model ----
(***************************************************************************)
(* Narwal robot-vacuum local WebSocket client: frame codec                 *)
(* (narwal_client/protocol.py) and device-state aggregate                  *)
(* (narwal_client/models.py).                                              *)
(*                                                                         *)
(* Bytes are integers 0..255, byte strings are sequences of bytes, Python  *)
(* str values are sequences of Unicode code points.  Python sequences are  *)
(* 0-indexed, TLA+ sequences 1-indexed: data[k] of the source is           *)
(* data[k + 1] here.                                                       *)
(***************************************************************************)
EXTENDS Integers, Sequences, FiniteSets, TLC

VARIABLES
    topic,         \* build_frame argument: topic (str, code points)
    payload,       \* build_frame argument: payload (bytes)
    header_byte,   \* build_frame argument: header byte, or None
    frame,         \* outcome of build_frame
    data,          \* parse_frame argument: raw buffer
    msg,           \* outcome of parse_frame
    state,         \* NarwalClient.state: the NarwalState aggregate
    outcome,       \* the exception the last state operation raised, "" for none
    robot_awake,   \* NarwalClient._robot_awake
    last_broadcast_time,   \* NarwalClient._last_broadcast_time
    now,           \* time.monotonic(), in ticks
    ws,            \* NarwalClient._ws: "none", "open", or "closed" (connection lost)
    connected_event,   \* NarwalClient._connected (asyncio.Event)
    should_reconnect,  \* NarwalClient._should_reconnect
    listener_active,   \* NarwalClient._listener_active
    listen_pc,     \* where the start_listening() task is
    backoff,       \* start_listening()'s retry_delay, and its current sleep
    heartbeat_task,    \* NarwalClient._heartbeat_task: "none", "running", "done"
    keepalive_task,    \* NarwalClient._keepalive_task: "none", "running", "done"
    response_queue,    \* NarwalClient._response_queue
    inbox,         \* frames the device has sent and the client has not read yet
    sent,          \* number of frames written to the transport
    unanswered,    \* serials of the commands written that the device has not answered
    cmd,           \* the send_command() call in progress or last finished
    wake_call,     \* the wake() call in progress or last finished
    coord          \* the NarwalCoordinator: guard, poll position, published state

vars == <<topic, payload, header_byte, frame, data, msg,
          state, outcome, robot_awake, last_broadcast_time, now,
          ws, connected_event, should_reconnect, listener_active, listen_pc, backoff,
          heartbeat_task, keepalive_task, response_queue, inbox, sent, unanswered,
          cmd, wake_call, coord>>

codecVars == <<topic, payload, header_byte, frame, data, msg>>
stateVars == <<state, outcome, robot_awake, last_broadcast_time, now>>
clientVars == <<ws, connected_event, should_reconnect, listener_active, listen_pc, backoff,
                heartbeat_task, keepalive_task, response_queue, inbox, sent, unanswered,
                cmd, wake_call, coord>>
connVars == <<ws, connected_event, should_reconnect, listener_active, listen_pc, backoff,
              heartbeat_task, keepalive_task>>

\* Python's None for an optional argument: the empty option, a value v being <<v>>
None == <<>>
Some(v) == <<v>>

(***************************************************************************)
(* Bounds of the model                                                     *)
(***************************************************************************)
\* longest topic, in characters, enumerated over the whole alphabet
MaxTopicChars == 2
\* longest payload enumerated, in bytes
MaxPayloadLen == 2
\* longest tail (the bytes after the 4-byte header) of an enumerated raw buffer
MaxRawTail == 3
\* most overlay sub-fields in an enumerated field 3 message
MaxOverlays == 1

(***************************************************************************)
(* Protocol constants                                                      *)
(***************************************************************************)
FRAME_TYPE_BYTE == 1
PROTOBUF_FIELD_TAG == 34
PROTOBUF_FIELD5_TAG == 42
TOPIC_LENGTH_OFFSET == 3
TOPIC_DATA_OFFSET == 4

(***************************************************************************)
(* Sequence helpers                                                        *)
(***************************************************************************)
\* Python slice s[a:b] (0-indexed, b exclusive, clamped to the sequence)
Slice(s, a, b) ==
    LET hi == IF b > Len(s) THEN Len(s) ELSE b
    IN  IF a >= hi THEN <<>> ELSE [i \in 1..(hi - a) |-> s[a + i]]

\* s * n
Repeat(s, n) == [i \in 1..(n * Len(s)) |-> s[((i - 1) % Len(s)) + 1]]

RECURSIVE SeqsUpTo(_, _)
\* all sequences over alphabet A of length at most n
SeqsUpTo(A, n) ==
    IF n = 0 THEN {<<>>}
    ELSE LET shorter == SeqsUpTo(A, n - 1)
         IN  shorter \cup {Append(s, a) : s \in {t \in shorter : Len(t) = n - 1}, a \in A}

(***************************************************************************)
(* str.encode("utf-8") and bytes.decode("utf-8")                           *)
(***************************************************************************)
\* UTF-8 encoding of one code point (surrogates excluded by the callers)
EncodeCodePoint(cp) ==
    IF cp < 128 THEN <<cp>>
    ELSE IF cp < 2048 THEN <<192 + (cp \div 64), 128 + (cp % 64)>>
    ELSE IF cp < 65536 THEN
        <<224 + (cp \div 4096), 128 + ((cp \div 64) % 64), 128 + (cp % 64)>>
    ELSE <<240 + (cp \div 262144), 128 + ((cp \div 4096) % 64),
           128 + ((cp \div 64) % 64), 128 + (cp % 64)>>

RECURSIVE EncodeRange(_, _, _)
\* the encodings of s[lo..hi] joined (halving keeps the evaluation shallow)
EncodeRange(s, lo, hi) ==
    IF lo > hi THEN <<>>
    ELSE IF lo = hi THEN EncodeCodePoint(s[lo])
    ELSE LET mid == (lo + hi) \div 2
         IN  EncodeRange(s, lo, mid) \o EncodeRange(s, mid + 1, hi)

\* topic.encode("utf-8")
Utf8Encode(s) == EncodeRange(s, 1, Len(s))

IsCont(b) == b >= 128 /\ b <= 191

\* Strict decoding of the character starting at b[1]:
\* [n |-> bytes consumed (0 = UnicodeDecodeError), cp |-> code point]
DecodeOne(b) ==
    LET b1 == b[1]
        bad == [n |-> 0, cp |-> 0]
    IN  IF b1 < 128 THEN [n |-> 1, cp |-> b1]
        ELSE IF b1 >= 194 /\ b1 <= 223 THEN
            IF Len(b) >= 2 /\ IsCont(b[2])
            THEN [n |-> 2, cp |-> (b1 - 192) * 64 + (b[2] - 128)]
            ELSE bad
        ELSE IF b1 >= 224 /\ b1 <= 239 THEN
            IF /\ Len(b) >= 3 /\ IsCont(b[2]) /\ IsCont(b[3])
               /\ (b1 = 224 => b[2] >= 160)      \* no overlong form
               /\ (b1 = 237 => b[2] <= 159)      \* no surrogate
            THEN [n |-> 3, cp |-> (b1 - 224) * 4096 + (b[2] - 128) * 64 + (b[3] - 128)]
            ELSE bad
        ELSE IF b1 >= 240 /\ b1 <= 244 THEN
            IF /\ Len(b) >= 4 /\ IsCont(b[2]) /\ IsCont(b[3]) /\ IsCont(b[4])
               /\ (b1 = 240 => b[2] >= 144)
               /\ (b1 = 244 => b[2] <= 143)
            THEN [n |-> 4, cp |-> (b1 - 240) * 262144 + (b[2] - 128) * 4096
                                  + (b[3] - 128) * 64 + (b[4] - 128)]
            ELSE bad
        ELSE bad

\* the character starting at position i of b
CharAt(b, i) == DecodeOne(Slice(b, i - 1, i + 3))

\* the position after the character starting at i: the next byte that is no
\* continuation byte, or the end; 0 when more than 3 continuation bytes follow
NextStart(b, i) ==
    LET ends == {j \in (i + 1)..(i + 4) : j = Len(b) + 1 \/ (j <= Len(b) /\ ~IsCont(b[j]))}
    IN  IF ends = {} THEN 0 ELSE CHOOSE j \in ends : \A k \in ends : j <= k

\* UTF-8 is self-synchronising: the text is valid exactly when it starts with
\* a lead byte and every lead byte opens a valid character that ends where the
\* next one starts
Utf8Valid(b) ==
    /\ (Len(b) > 0 => ~IsCont(b[1]))
    /\ \A i \in 1..Len(b) :
          ~IsCont(b[i]) => /\ CharAt(b, i).n > 0
                           /\ i + CharAt(b, i).n = NextStart(b, i)

RECURSIVE DecodeRange(_, _, _)
\* the code points of the characters starting in b[lo..hi], in order
DecodeRange(b, lo, hi) ==
    IF lo > hi THEN <<>>
    ELSE IF lo = hi THEN (IF IsCont(b[lo]) THEN <<>> ELSE <<CharAt(b, lo).cp>>)
    ELSE LET mid == (lo + hi) \div 2
         IN  DecodeRange(b, lo, mid) \o DecodeRange(b, mid + 1, hi)

\* bytes.decode("utf-8"): [ok |-> FALSE] stands for UnicodeDecodeError
Utf8Decode(b) ==
    IF Utf8Valid(b) THEN [ok |-> TRUE, str |-> DecodeRange(b, 1, Len(b))]
    ELSE [ok |-> FALSE, str |-> <<>>]

(***************************************************************************)
(* protocol.py                                                             *)
(***************************************************************************)
\* A raised exception: no value is returned
Raised(exc) ==
    [ok |-> FALSE, err |-> exc, topic |-> <<>>, payload |-> <<>>,
     header_byte |-> 0, field_tag |-> 0, raw |-> <<>>]

\* NarwalMessage(topic, payload, header_byte, field_tag, raw)
NarwalMessage(t, p, h, tag, raw) ==
    [ok |-> TRUE, err |-> "", topic |-> t, payload |-> p,
     header_byte |-> h, field_tag |-> tag, raw |-> raw]

\* parse_frame with the field marker checked before the frame type
parse_frame_marker_first(d) ==
    IF Len(d) < 4 THEN Raised("ProtocolError: too short")
    ELSE IF d[3] \notin {PROTOBUF_FIELD_TAG, PROTOBUF_FIELD5_TAG}
        THEN Raised("ProtocolError: protobuf field tag")
    ELSE IF d[1] # FRAME_TYPE_BYTE THEN Raised("ProtocolError: frame type")
    ELSE LET topic_len == d[TOPIC_LENGTH_OFFSET + 1]
             topic_end == TOPIC_DATA_OFFSET + topic_len
         IN  IF Len(d) < topic_end THEN Raised("ProtocolError: truncated")
             ELSE LET dec == Utf8Decode(Slice(d, TOPIC_DATA_OFFSET, topic_end))
                  IN  IF ~dec.ok THEN Raised("ProtocolError: invalid UTF-8")
                      ELSE NarwalMessage(dec.str, Slice(d, topic_end, Len(d)),
                                         d[2], d[3], d)

\* parse_frame(data)
parse_frame(d) ==
    IF Len(d) < 4 THEN Raised("ProtocolError: too short")
    ELSE IF d[1] # FRAME_TYPE_BYTE THEN Raised("ProtocolError: frame type")
    ELSE IF d[3] \notin {PROTOBUF_FIELD_TAG, PROTOBUF_FIELD5_TAG}
        THEN Raised("ProtocolError: protobuf field tag")
    ELSE LET hb == d[2]
             topic_len == d[TOPIC_LENGTH_OFFSET + 1]
             topic_end == TOPIC_DATA_OFFSET + topic_len
         IN  IF Len(d) < topic_end THEN Raised("ProtocolError: truncated")
             ELSE LET dec == Utf8Decode(Slice(d, TOPIC_DATA_OFFSET, topic_end))
                  IN  IF ~dec.ok THEN Raised("ProtocolError: invalid UTF-8")
                      ELSE NarwalMessage(dec.str, Slice(d, topic_end, Len(d)),
                                         hb, d[3], d)

\* outcome of build_frame: the frame bytes, or the exception raised
Built(bytes) == [ok |-> TRUE, err |-> "", bytes |-> bytes]
NotBuilt(exc) == [ok |-> FALSE, err |-> exc, bytes |-> <<>>]

\* build_frame writing len(topic), the character count, as the length byte
build_frame_char_count(t, p, h) ==
    LET topic_bytes == Utf8Encode(t)
    IN  IF Len(topic_bytes) = 0 THEN NotBuilt("ValueError: empty")
        ELSE IF Len(topic_bytes) > 255 THEN NotBuilt("ValueError: too long")
        ELSE LET hb == IF h = None THEN Len(topic_bytes) + 2 ELSE h[1]
             IN  Built(<<FRAME_TYPE_BYTE, hb % 256, PROTOBUF_FIELD_TAG,
                         Len(t)>> \o topic_bytes \o p)

\* build_frame limiting len(topic), the character count, to 255
build_frame_char_limit(t, p, h) ==
    LET topic_bytes == Utf8Encode(t)
    IN  IF Len(t) = 0 THEN NotBuilt("ValueError: empty")
        ELSE IF Len(t) > 255 THEN NotBuilt("ValueError: too long")
        ELSE LET hb == IF h = None THEN Len(topic_bytes) + 2 ELSE h[1]
             IN  Built(<<FRAME_TYPE_BYTE, hb % 256, PROTOBUF_FIELD_TAG,
                         Len(topic_bytes) % 256>> \o topic_bytes \o p)

\* build_frame computing the header byte as topic length + 1
build_frame_header_off_by_one(t, p, h) ==
    LET topic_bytes == Utf8Encode(t)
    IN  IF Len(topic_bytes) = 0 THEN NotBuilt("ValueError: empty")
        ELSE IF Len(topic_bytes) > 255 THEN NotBuilt("ValueError: too long")
        ELSE LET hb == IF h = None THEN Len(topic_bytes) + 1 ELSE h[1]
             IN  Built(<<FRAME_TYPE_BYTE, hb % 256, PROTOBUF_FIELD_TAG,
                         Len(topic_bytes)>> \o topic_bytes \o p)

\* build_frame(topic, payload, header_byte=None)
build_frame(t, p, h) ==
    LET topic_bytes == Utf8Encode(t)
    IN  IF Len(topic_bytes) = 0 THEN NotBuilt("ValueError: empty")
        ELSE IF Len(topic_bytes) > 255 THEN NotBuilt("ValueError: too long")
        ELSE LET hb == IF h = None THEN Len(topic_bytes) + 2 ELSE h[1]
             IN  Built(<<FRAME_TYPE_BYTE, hb % 256, PROTOBUF_FIELD_TAG,
                         Len(topic_bytes)>> \o topic_bytes \o p)

(***************************************************************************)
(* Inputs of the codec                                                     *)
(***************************************************************************)
\* '/', 'a', U+00E9 (2 bytes), U+20AC (3 bytes), U+1F600 (4 bytes)
TopicAlphabet == {47, 97, 233, 8364, 128512}

\* topics around the 255-byte limit: 253..256 bytes of ASCII, 254/256 bytes of
\* 2-byte characters, 255/258 bytes of 3-byte characters
LongTopics ==
    {Repeat(<<97>>, n) : n \in {253, 254, 255, 256}}
        \cup {Repeat(<<233>>, n) : n \in {127, 128}}
        \cup {Repeat(<<8364>>, n) : n \in {85, 86}}

Topics == SeqsUpTo(TopicAlphabet, MaxTopicChars) \cup LongTopics

Payloads == SeqsUpTo({1, 42}, MaxPayloadLen)

\* None, 0xAB, and 0x1AB (wider than a byte)
HeaderBytes == {None, Some(171), Some(427)}

\* 'a', the two bytes of U+00E9, and 0xFF (never valid in UTF-8)
RawAlphabet == {97, 195, 169, 255}

\* raw buffers: every header shape with a declared topic length around the tail
\* length, and the buffers shorter than a header
RawBuffers ==
    {<<b0, b1, b2, b3>> \o tail :
        b0 \in {1, 2}, b1 \in {0, 5}, b2 \in {34, 42, 51},
        b3 \in 0..(MaxRawTail + 1), tail \in SeqsUpTo(RawAlphabet, MaxRawTail)}
    \cup SeqsUpTo({1, 34}, 3)

(***************************************************************************)
(* Initial state                                                           *)
(***************************************************************************)
NoFrame == NotBuilt("")
NoMessage == Raised("")

CodecInit ==
    /\ topic = <<>>
    /\ payload = <<>>
    /\ header_byte = None
    /\ frame = NoFrame
    /\ data = <<>>
    /\ msg = NoMessage

(***************************************************************************)
(* Codec operations                                                        *)
(***************************************************************************)
\* no codec call has been made yet
CodecIdle == frame = NoFrame /\ msg = NoMessage

\* frame = build_frame(topic, payload, header_byte)
BuildFrame ==
    /\ CodecIdle
    /\ \E t \in Topics, p \in Payloads, h \in HeaderBytes :
        /\ topic' = t
        /\ payload' = p
        /\ header_byte' = h
        /\ frame' = build_frame(t, p, h)
        /\ data' = <<>>
        /\ msg' = NoMessage
        /\ UNCHANGED <<stateVars, clientVars>>

\* msg = parse_frame(frame), for a frame build_frame returned
ParseBuilt ==
    /\ frame.ok
    /\ msg = NoMessage
    /\ data' = frame.bytes
    /\ msg' = parse_frame(frame.bytes)
    /\ UNCHANGED <<topic, payload, header_byte, frame>>
    /\ UNCHANGED <<stateVars, clientVars>>

\* msg = parse_frame(data), for a buffer received from the socket
ParseRaw ==
    /\ CodecIdle
    /\ \E d \in RawBuffers :
        /\ data' = d
        /\ msg' = parse_frame(d)
        /\ topic' = <<>>
        /\ payload' = <<>>
        /\ header_byte' = None
        /\ frame' = NoFrame
        /\ UNCHANGED <<stateVars, clientVars>>

(***************************************************************************)
(* Decoded protobuf values (blackboxprotobuf output)                       *)
(*                                                                         *)
(* A decoded value is [t |-> type, n |-> content]:                         *)
(*   "absent"  the key is not in the mapping                               *)
(*   "int"     a Python int n                                              *)
(*   "float"   a Python float holding the float32 with bit pattern n       *)
(*   "bytes"   a byte string that is no decimal literal; n = 0 is b""      *)
(*   "dict"    a nested message (n = number of entries) met where a        *)
(*             scalar is expected                                          *)
(***************************************************************************)
Absent == [t |-> "absent", n |-> 0]
IntV(n) == [t |-> "int", n |-> n]
FloatV(bits) == [t |-> "float", n |-> bits]
BytesV(id) == [t |-> "bytes", n |-> id]
DictV(size) == [t |-> "dict", n |-> size]

\* int(v): [exc |-> "" and the value n, or the exception raised]
PyInt(v) ==
    IF v.t = "int" THEN [exc |-> "", n |-> v.n]
    ELSE IF v.t = "bytes" THEN [exc |-> "ValueError", n |-> 0]
    ELSE [exc |-> "TypeError", n |-> 0]

\* bool(v), v being what dict.get returns (None when the key is absent)
PyBool(v) ==
    IF v.t = "absent" THEN FALSE
    ELSE v.n # 0

\* round(x) of the float32 with bit pattern bits (sign bit clear): round half to
\* even; NaN raises ValueError, infinity OverflowError
RoundFloat32(bits) ==
    LET e == (bits \div 8388608) % 256
        m == bits % 8388608
        M == 8388608 + m
        shift == 150 - e
    IN  IF e = 255 THEN
            [exc |-> IF m = 0 THEN "OverflowError" ELSE "ValueError", n |-> 0]
        ELSE IF e = 0 \/ shift > 25 THEN [exc |-> "", n |-> 0]
        ELSE IF shift <= 0 THEN [exc |-> "", n |-> M * (2 ^ (0 - shift))]
        ELSE LET unit == 2 ^ shift
                 q == M \div unit
                 r == M % unit
                 half == unit \div 2
             IN  [exc |-> "",
                  n |-> IF r > half \/ (r = half /\ q % 2 = 1) THEN q + 1 ELSE q]

\* _to_float32(val): the float32 as its bit pattern, None for any other type.
\* val & 0xFFFFFFFF leaves the bit patterns of the model (0 <= n < 2^31) as they are.
to_float32(v) ==
    IF v.t = "float" THEN Some(v.n)
    ELSE IF v.t = "int" THEN Some(v.n)
    ELSE None

(***************************************************************************)
(* const.py: WorkingStatus                                                 *)
(***************************************************************************)
UNKNOWN == 0
STANDBY == 1
CLEANING == 4
CLEANING_ALT == 5
DOCKED == 10
CHARGED == 14
ERROR == 99

WorkingStatusValues == {UNKNOWN, STANDBY, CLEANING, CLEANING_ALT, DOCKED, CHARGED, ERROR}

\* WorkingStatus(int(v)), ValueError and TypeError giving UNKNOWN
WorkingStatus(v) ==
    LET i == PyInt(v)
    IN  IF i.exc = "" /\ i.n \in WorkingStatusValues THEN i.n ELSE UNKNOWN

(***************************************************************************)
(* models.py: NarwalState                                                  *)
(***************************************************************************)
\* a str value: the text of the value (of type `of`, content n) it was made from
StrOf(of, n) == [of |-> of, n |-> n]
EmptyStr == StrOf("", 0)

\* field 3 of robot_base_status when it is no nested message with entries
NoField3(v) ==
    [t |-> v.t, n |-> v.n, s1 |-> Absent, s2 |-> Absent, s3 |-> Absent,
     s7 |-> Absent, s10 |-> Absent, s12 |-> Absent]

\* field 3 as a nested message {1: s1, 2: s2, 3: s3, 7: s7, 10: s10, 12: s12}
Field3(s1, s2, s3, s7, s10, s12) ==
    [t |-> "dict", n |-> 1, s1 |-> s1, s2 |-> s2, s3 |-> s3,
     s7 |-> s7, s10 |-> s10, s12 |-> s12]

\* the decoded mapping {} (dataclass default of the raw caches)
EmptyDecoded ==
    [k2 |-> Absent, k3 |-> NoField3(Absent), k11 |-> Absent, k13 |-> Absent,
     k36 |-> Absent, k38 |-> Absent, k47 |-> Absent]

\* NarwalState(): the dataclass defaults
NarwalState ==
    [working_status |-> UNKNOWN,
     battery_level |-> 0,
     battery_health |-> 0,
     session_id |-> EmptyStr,
     timestamp |-> 0,
     map_display_data |-> None,
     is_paused |-> FALSE,
     dock_sub_state |-> 0,
     is_returning_to_dock |-> FALSE,
     dock_activity |-> 0,
     dock_presence |-> 0,
     dock_field11 |-> 0,
     dock_field47 |-> 0,
     raw_base_status |-> EmptyDecoded]

\* NarwalState.is_cleaning
is_cleaning(s) ==
    /\ s.working_status \in {CLEANING, CLEANING_ALT}
    /\ ~s.is_paused
    /\ ~s.is_returning_to_dock

\* is_docked trusting dock_sub_state = 1 in every mode (it lingers at 1 after
\* the robot has left the dock)
is_docked_any_mode(s) ==
    IF s.working_status \in {DOCKED, CHARGED} THEN TRUE
    ELSE IF s.dock_sub_state = 1 THEN TRUE
    ELSE IF s.working_status = STANDBY THEN
        \/ s.dock_activity > 0
        \/ s.dock_field11 = 2
        \/ s.dock_field47 = 3
    ELSE FALSE

\* NarwalState.is_docked
is_docked(s) ==
    IF s.working_status \in {DOCKED, CHARGED} THEN TRUE
    ELSE IF s.working_status = STANDBY THEN
        \/ s.dock_sub_state = 1
        \/ s.dock_activity > 0
        \/ s.dock_field11 = 2
        \/ s.dock_field47 = 3
    ELSE FALSE

\* is_returning from the dock sub-state alone, ignoring the returning flag
is_returning_sub_state_only(s) == s.dock_sub_state = 2 /\ ~is_cleaning(s)

\* NarwalState.is_returning
is_returning(s) ==
    IF s.is_returning_to_dock THEN TRUE
    ELSE IF s.dock_sub_state = 2 /\ s.working_status \notin {DOCKED, CHARGED} THEN TRUE
    ELSE FALSE

\* int(v) inside try/except (ValueError, TypeError): the fallback on a raise
IntOr(v, fallback) ==
    LET i == PyInt(v) IN IF i.exc = "" THEN i.n ELSE fallback

\* field3.get(key, 0), then int() guarded as above with fallback 0
SubInt(v) == IF v.t = "absent" THEN 0 ELSE IntOr(v, 0)

\* update_from_base_status: the field 11 and field 47 dock indicators
apply_dock_indicators(s, d) ==
    LET a == IF d.k11.t # "absent"
             THEN [s EXCEPT !.dock_field11 = IntOr(d.k11, 0)] ELSE s
    IN  IF d.k47.t # "absent"
        THEN [a EXCEPT !.dock_field47 = IntOr(d.k47, 0)] ELSE a

\* field 3 with the returning flag honoured only while the state, read before
\* the mode is assigned, is in a cleaning mode
apply_field3_stale_mode(s, d) ==
    LET f == d.k3
    IN  IF f.t = "dict" /\ f.s1.t # "absent" THEN
            [s EXCEPT !.working_status = WorkingStatus(f.s1),
                      !.is_paused = PyBool(f.s2),
                      !.is_returning_to_dock =
                          PyBool(f.s7) /\ s.working_status \in {CLEANING, CLEANING_ALT},
                      !.dock_sub_state = SubInt(f.s10),
                      !.dock_activity = SubInt(f.s12),
                      !.dock_presence = SubInt(f.s3)]
        ELSE s

\* field 3 as it would be if an overlay sub-field that is absent kept the
\* value it had
apply_field3_keeping(s, d) ==
    LET f == d.k3
    IN  IF f.t = "dict" /\ f.s1.t # "absent" THEN
            [s EXCEPT !.working_status = WorkingStatus(f.s1),
                      !.is_paused = IF f.s2.t = "absent" THEN @ ELSE PyBool(f.s2),
                      !.is_returning_to_dock =
                          IF f.s7.t = "absent" THEN @ ELSE PyBool(f.s7),
                      !.dock_sub_state = IF f.s10.t = "absent" THEN @ ELSE SubInt(f.s10),
                      !.dock_activity = IF f.s12.t = "absent" THEN @ ELSE SubInt(f.s12),
                      !.dock_presence = IF f.s3.t = "absent" THEN @ ELSE SubInt(f.s3)]
        ELSE s

\* field 3 as it would be if a payload without the mode reset the overlays
apply_field3_resetting(s, d) ==
    LET f == d.k3
    IN  IF f.t = "dict" /\ f.s1.t # "absent" THEN
            [s EXCEPT !.working_status = WorkingStatus(f.s1),
                      !.is_paused = PyBool(f.s2),
                      !.is_returning_to_dock = PyBool(f.s7),
                      !.dock_sub_state = SubInt(f.s10),
                      !.dock_activity = SubInt(f.s12),
                      !.dock_presence = SubInt(f.s3)]
        ELSE [s EXCEPT !.is_paused = FALSE, !.is_returning_to_dock = FALSE,
                       !.dock_sub_state = 0, !.dock_activity = 0,
                       !.dock_presence = 0]

\* update_from_base_status: the nested field 3 (mode and its overlays)
apply_field3(s, d) ==
    LET f == d.k3
    IN  IF f.t = "dict" /\ f.s1.t # "absent" THEN
            [s EXCEPT !.working_status = WorkingStatus(f.s1),
                      !.is_paused = PyBool(f.s2),
                      !.is_returning_to_dock = PyBool(f.s7),
                      !.dock_sub_state = SubInt(f.s10),
                      !.dock_activity = SubInt(f.s12),
                      !.dock_presence = SubInt(f.s3)]
        ELSE s

\* the outcome of a step that may raise: the state reached and the exception
Ran(s) == [state |-> s, exc |-> ""]
Threw(s, exc) == [state |-> s, exc |-> exc]

\* update_from_base_status: field 2, the battery level
apply_battery(s, d) ==
    IF d.k2.t = "absent" THEN Ran(s)
    ELSE LET bat == to_float32(d.k2)
         IN  IF bat = None THEN Ran(s)
             ELSE LET r == RoundFloat32(bat[1])
                  IN  IF r.exc # "" THEN Threw(s, r.exc)
                      ELSE Ran([s EXCEPT !.battery_level = r.n])

\* update_from_base_status: field 38, the battery health (unguarded int())
apply_health(s, d) ==
    IF d.k38.t = "absent" THEN Ran(s)
    ELSE LET i == PyInt(d.k38)
         IN  IF i.exc # "" THEN Threw(s, i.exc)
             ELSE Ran([s EXCEPT !.battery_health = i.n])

\* update_from_base_status: field 36, the timestamp (unguarded int())
apply_timestamp(s, d) ==
    IF d.k36.t = "absent" THEN Ran(s)
    ELSE LET i == PyInt(d.k36)
         IN  IF i.exc # "" THEN Threw(s, i.exc)
             ELSE Ran([s EXCEPT !.timestamp = i.n])

\* update_from_base_status: field 13, the session id: bytes are decoded, any
\* other value goes through str()
apply_session(s, d) ==
    IF d.k13.t = "absent" THEN s
    ELSE [s EXCEPT !.session_id = StrOf(d.k13.t, d.k13.n)]

\* NarwalState.update_from_base_status(decoded): the assignments in source
\* order, an exception leaving the later ones undone
update_from_base_status(s, d) ==
    LET s0 == [s EXCEPT !.raw_base_status = d]
        s1 == apply_field3(apply_dock_indicators(s0, d), d)
        r2 == apply_battery(s1, d)
        r3 == IF r2.exc = "" THEN apply_health(r2.state, d) ELSE r2
        r4 == IF r3.exc = "" THEN apply_timestamp(r3.state, d) ELSE r3
    IN  IF r4.exc = "" THEN Ran(apply_session(r4.state, d)) ELSE r4

(***************************************************************************)
(* client.py: the broadcast handler                                        *)
(***************************************************************************)
\* _handle_message, topic status/robot_base_status: the device state after it
handle_base_status(s, d) ==
    LET was_cleaning == is_cleaning(s)
        r == update_from_base_status(s, d)
    IN  IF r.exc # "" THEN r
        ELSE IF was_cleaning /\ ~is_cleaning(r.state)
        THEN Ran([r.state EXCEPT !.map_display_data = None])
        ELSE r

(***************************************************************************)
(* Decoded robot_base_status payloads                                      *)
(***************************************************************************)
\* float32 bit patterns: 85.0, 84.5 (a tie: rounds to the even 84), NaN
Bits85 == IntV(1118437376)
Float84_5 == FloatV(1118371840)
BitsNaN == IntV(2143289344)

\* sub-field 1 of field 3: absent, the modes, a value outside the enum, bytes
ModeValues ==
    {Absent, IntV(STANDBY), IntV(CLEANING), IntV(CLEANING_ALT), IntV(DOCKED),
     IntV(CHARGED), IntV(ERROR), IntV(255), BytesV(1)}

\* number of overlay sub-fields (2, 3, 7, 10, 12) present in a field 3 message
Overlays(f) ==
    Cardinality({k \in {"s2", "s3", "s7", "s10", "s12"} : f[k].t # "absent"})

\* field 3 messages with at most MaxOverlays overlay sub-fields
Field3Messages ==
    {f \in {Field3(s1, s2, s3, s7, s10, s12) :
                s1 \in ModeValues,
                s2 \in {Absent, IntV(1)},
                s3 \in {Absent, IntV(1)},
                s7 \in {Absent, IntV(1)},
                s10 \in {Absent, IntV(1), IntV(2)},
                s12 \in {Absent, IntV(2)}} :
        Overlays(f) <= MaxOverlays}

\* payloads carrying field 3 alone
ModePayloads == {[EmptyDecoded EXCEPT !.k3 = f] : f \in Field3Messages}

\* the empty payload and the payloads carrying one dock indicator
DockPayloads ==
    {EmptyDecoded}
        \cup {[EmptyDecoded EXCEPT !.k11 = v] : v \in {IntV(1), IntV(2)}}
        \cup {[EmptyDecoded EXCEPT !.k47 = v] : v \in {IntV(2), IntV(3)}}

\* payloads of the test suite, and payloads with fields of unexpected types
MixedPayloads ==
    {[EmptyDecoded EXCEPT !.k3 = Field3(IntV(CLEANING), Absent, Absent, Absent, Absent, Absent),
                          !.k2 = Bits85],
     [EmptyDecoded EXCEPT !.k3 = Field3(IntV(CHARGED), Absent, Absent, Absent, IntV(1), Absent),
                          !.k2 = Bits85],
     [EmptyDecoded EXCEPT !.k3 = Field3(IntV(STANDBY), Absent, IntV(2), Absent, Absent, Absent),
                          !.k11 = IntV(1), !.k47 = IntV(2), !.k2 = Bits85],
     [EmptyDecoded EXCEPT !.k3 = Field3(IntV(STANDBY), Absent, IntV(6), Absent, Absent, Absent),
                          !.k11 = IntV(2), !.k47 = IntV(3)],
     [EmptyDecoded EXCEPT !.k3 = Field3(IntV(CLEANING), Absent, Absent, IntV(1), IntV(2), Absent)],
     [EmptyDecoded EXCEPT !.k2 = Bits85],
     [EmptyDecoded EXCEPT !.k2 = Float84_5, !.k38 = IntV(100), !.k36 = IntV(1757252225),
                          !.k13 = BytesV(1)],
     [EmptyDecoded EXCEPT !.k2 = BitsNaN, !.k38 = IntV(100)],
     [EmptyDecoded EXCEPT !.k2 = BytesV(1)],
     [EmptyDecoded EXCEPT !.k11 = BytesV(1), !.k47 = DictV(1)],
     [EmptyDecoded EXCEPT !.k3 = NoField3(IntV(7))],
     [EmptyDecoded EXCEPT !.k3 = Field3(IntV(CLEANING), Absent, Absent, Absent, BytesV(1), DictV(1))],
     [EmptyDecoded EXCEPT !.k3 = Field3(IntV(CLEANING), Absent, Absent, Absent, Absent, Absent),
                          !.k38 = BytesV(1)]}

\* payloads of the state runs: every mode with its overlays, and the dock
\* indicators
StatePayloads == ModePayloads \cup DockPayloads

(***************************************************************************)
(* Device-state operations                                                 *)
(***************************************************************************)
StateInit ==
    /\ state = NarwalState
    /\ outcome = ""
    /\ robot_awake = FALSE
    /\ last_broadcast_time = 0
    /\ now = 0

\* payloads of the handler runs: the modes without overlay, the dock
\* indicators, the test-suite and the malformed payloads
HandlerPayloads ==
    {d \in ModePayloads : Overlays(d.k3) = 0} \cup DockPayloads \cup MixedPayloads

\* state.update_from_base_status(decoded), as get_status(full_update=True)
\* applies a status response, for a payload of P
UpdateBaseStatus(P) ==
    \E d \in P :
        LET r == update_from_base_status(state, d)
        IN  /\ state' = r.state
            /\ outcome' = r.exc
            /\ UNCHANGED <<robot_awake, last_broadcast_time, now>>
            /\ UNCHANGED <<codecVars, clientVars>>

\* _handle_message for a parsed broadcast frame of topic
\* status/robot_base_status with decoded payload d of P (no callbacks registered)
HandleBaseStatus(P) ==
    \E d \in P :
        LET r == handle_base_status(state, d)
        IN  /\ last_broadcast_time' = now
            /\ robot_awake' = TRUE
            /\ state' = r.state
            /\ outcome' = r.exc
            /\ UNCHANGED now
            /\ UNCHANGED <<codecVars, clientVars>>

\* _handle_message for a parsed broadcast frame of topic map/display_map
HandleDisplayMap ==
    /\ last_broadcast_time' = now
    /\ robot_awake' = TRUE
    /\ state' = [state EXCEPT !.map_display_data = Some("MapDisplayData")]
    /\ outcome' = ""
    /\ UNCHANGED now
    /\ UNCHANGED <<codecVars, clientVars>>

(***************************************************************************)
(* client.py: frames on the wire                                           *)
(*                                                                         *)
(* A frame received from the device is held by what parse_frame and        *)
(* _decode_protobuf make of it: kind "garbage" (not bytes, shorter than 4  *)
(* bytes, or rejected by parse_frame), "bcast" (field tag 0x22) or "resp"  *)
(* (field tag 0x2A); topic is msg.short_topic; decodable is FALSE when     *)
(* _decode_protobuf raises; k1 is field 1 of a response, body the nested   *)
(* status message (field 2 of a get_device_base_status response, or the    *)
(* payload of a status broadcast), has_body whether it is present and not  *)
(* empty; re is the serial of the command a response answers.              *)
(***************************************************************************)
WireFrame(kind, short_topic, re, decodable, k1, has_body, body) ==
    [kind |-> kind, topic |-> short_topic, re |-> re, decodable |-> decodable,
     k1 |-> k1, has_body |-> has_body, body |-> body]

Garbage == WireFrame("garbage", "", 0, FALSE, Absent, FALSE, EmptyDecoded)
Broadcast(short_topic, d) == WireFrame("bcast", short_topic, 0, TRUE, Absent, TRUE, d)
UndecodableBroadcast(short_topic) ==
    WireFrame("bcast", short_topic, 0, FALSE, Absent, FALSE, EmptyDecoded)
Response(re, k1) == WireFrame("resp", "", re, TRUE, k1, FALSE, EmptyDecoded)
StatusResponse(re, k1, d) == WireFrame("resp", "", re, TRUE, k1, TRUE, d)
UndecodableResponse(re) == WireFrame("resp", "", re, FALSE, Absent, FALSE, EmptyDecoded)
NoWireFrame == WireFrame("none", "", 0, FALSE, Absent, FALSE, EmptyDecoded)

\* short topics of the frames
BASE_STATUS == "status/robot_base_status"
DISPLAY_MAP == "map/display_map"
TIME_LINE_STATUS == "status/time_line_status"

(***************************************************************************)
(* const.py: CommandResult; models.py: CommandResponse                     *)
(***************************************************************************)
SUCCESS == 1
NOT_APPLICABLE == 2
CONFLICT == 3

\* CommandResponse(result_code, data, raw_payload): data is held by its field 1
\* and its nested status message
CommandResponse(result_code, f) ==
    [result_code |-> result_code,
     data_k1 |-> IF f.decodable THEN f.k1 ELSE Absent,
     has_body |-> f.decodable /\ f.has_body,
     body |-> IF f.decodable THEN f.body ELSE EmptyDecoded]

NoResponse == CommandResponse(0, NoWireFrame)

\* CommandResponse.success, CommandResponse.not_applicable
success(resp) == resp.result_code = SUCCESS
not_applicable(resp) == resp.result_code = NOT_APPLICABLE

\* send_command, from "Decode response" on: the CommandResponse made of the
\* response frame f (decoded = {} when decoding fails; field 1 defaults to 0;
\* a field 1 that int() rejects gives result code 0)
decode_response(f) ==
    LET raw_field1 == IF f.decodable /\ f.k1.t # "absent" THEN f.k1 ELSE IntV(0)
        i == PyInt(raw_field1)
    IN  CommandResponse(IF i.exc = "" THEN i.n ELSE 0, f)

(***************************************************************************)
(* client.py: connection state                                             *)
(***************************************************************************)
\* the connected property as it would be without the _connected event
connected_transport_only == ws # "none"

\* NarwalClient.connected
connected == ws # "none" /\ connected_event

\* the send_command() and wake() calls before any call; timed_out holds the
\* serials of the send_command calls that ended in NarwalCommandError
NoCommand ==
    [pc |-> "idle", id |-> 0, op |-> "", full_update |-> TRUE,
     deadline |-> 0, chunk_end |-> 0, outcome |-> "",
     msg |-> NoWireFrame, resp |-> NoResponse, drained |-> <<>>, wrote |-> FALSE,
     applied |-> FALSE, timed_out |-> {}]
NoWake ==
    [pc |-> "idle", deadline |-> 0, wait_end |-> 0, result |-> "none",
     frames |-> 0, before |-> NarwalState, broadcasts |-> FALSE]

\* coordinator.py: the polling intervals in seconds, the fast polls allowed
POLL_INTERVAL == 60
FAST_POLL_INTERVAL == 10
FAST_POLL_MAX == 6

\* the coordinator after __init__: no callback registered, no guard, nothing
\* published to the platform, polling at the normal interval
NoCoordinator ==
    [registered |-> FALSE, pc |-> "idle", stale_guard_until |-> 0,
     published |-> None, round |-> "none", stop_result |-> "none",
     sleep_end |-> 0, polls |-> 0,
     fast_poll_remaining |-> 0, update_interval |-> POLL_INTERVAL]

\* const.py, in seconds
RECONNECT_INITIAL_DELAY == 1
RECONNECT_MAX_DELAY == 300
RECONNECT_BACKOFF_FACTOR == 2

\* start_listening(): retry_delay in seconds, wait the length of the sleep
\* last ended in ticks, retries the sleeps since retry_delay was last reset
NoBackoff == [retry_delay |-> RECONNECT_INITIAL_DELAY, wait |-> 0, retries |-> 0]

\* NarwalClient.__init__
ClientInit ==
    /\ ws = "none"
    /\ connected_event = FALSE
    /\ should_reconnect = TRUE
    /\ listener_active = FALSE
    /\ listen_pc = "none"
    /\ backoff = NoBackoff
    /\ heartbeat_task = "none"
    /\ keepalive_task = "none"
    /\ response_queue = <<>>
    /\ inbox = <<>>
    /\ sent = 0
    /\ unanswered = {}
    /\ cmd = NoCommand
    /\ wake_call = NoWake
    /\ coord = NoCoordinator

(***************************************************************************)
(* Time                                                                    *)
(***************************************************************************)
\* ticks of the clock per second
TicksPerSecond == 2
\* frames the device can have sent ahead of the client's reads
MaxInbox == 1
\* frames written to the transport when a call is made (the calls of the
\* coordinator are bounded by its polls)
MaxSent == 16
\* frames send_raw() writes in one run
MaxRaw == 2
\* send_command() calls numbered in one run
MaxCommands == 2

Min(a, b) == IF a <= b THEN a ELSE b

\* an armed timer fires when it is due: the clock may advance by d only if that
\* passes the expiry of no wait_for() in progress
TimersAllow(d) ==
    /\ cmd.pc = "queue" => now + d <= cmd.deadline
    /\ cmd.pc \in {"direct", "discover"} => now + d <= cmd.chunk_end
    /\ wake_call.pc = "waiting" => now + d <= wake_call.wait_end
    /\ coord.pc = "fix_sleep" => now + d <= coord.sleep_end

\* time passes: the clock advances by a step of D, up to the horizon
Tick(D, horizon) ==
    \E d \in D :
        /\ now + d <= horizon
        /\ TimersAllow(d)
        /\ now' = now + d
        /\ UNCHANGED <<state, outcome, robot_awake, last_broadcast_time>>
        /\ UNCHANGED <<codecVars, clientVars>>

(***************************************************************************)
(* client.py: connect, disconnect, the listener task                       *)
(***************************************************************************)
\* connect() called by the user of the client (while the listener is not
\* connecting or reading itself): the transport opens, or NarwalConnectionError
\* is raised
Connect ==
    /\ listen_pc \notin {"connecting", "reading", "closing"}
    /\ \/ /\ ws' = "open"
          /\ connected_event' = TRUE
          /\ inbox' = <<>>
          /\ outcome' = ""
       \/ /\ outcome' = "NarwalConnectionError"
          /\ UNCHANGED <<ws, connected_event, inbox>>
    /\ UNCHANGED <<should_reconnect, listener_active, listen_pc, backoff, heartbeat_task,
                   keepalive_task, response_queue, sent, unanswered, cmd, wake_call, coord>>
    /\ UNCHANGED <<state, robot_awake, last_broadcast_time, now>>
    /\ UNCHANGED codecVars

\* the device or the network closes the connection
PeerClose ==
    /\ ws = "open"
    /\ ws' = "closed"
    /\ UNCHANGED <<connected_event, should_reconnect, listener_active, listen_pc, backoff,
                   heartbeat_task, keepalive_task, response_queue, inbox, sent,
                   unanswered, cmd, wake_call, coord>>
    /\ UNCHANGED <<stateVars, codecVars>>

\* consecutive backoff sleeps counted one by one; MaxRetries stands for that
\* many or more
MaxRetries == 11

\* a retry_delay that grows by the initial delay instead of doubling
NextBackoff_additive(b) ==
    [b EXCEPT !.retry_delay = Min(b.retry_delay + RECONNECT_INITIAL_DELAY,
                                  RECONNECT_MAX_DELAY)]

\* retry_delay = min(retry_delay * RECONNECT_BACKOFF_FACTOR, RECONNECT_MAX_DELAY)
NextBackoff(b) ==
    [b EXCEPT !.retry_delay = Min(b.retry_delay * RECONNECT_BACKOFF_FACTOR,
                                  RECONNECT_MAX_DELAY)]

\* task.cancel() on a task that is not done
Cancelled(task) == IF task = "running" THEN "done" ELSE task

\* disconnect(): _listen_task is never assigned, so of the three tasks only the
\* heartbeat and the keepalive are cancelled; a listener in its recv loop is
\* left reading a connection that has been closed ("closing")
Disconnect ==
    /\ should_reconnect' = FALSE
    /\ listener_active' = FALSE
    /\ robot_awake' = FALSE
    /\ connected_event' = FALSE
    /\ heartbeat_task' = Cancelled(heartbeat_task)
    /\ keepalive_task' = Cancelled(keepalive_task)
    /\ ws' = "none"
    /\ inbox' = <<>>
    /\ listen_pc' = IF listen_pc = "reading" THEN "closing" ELSE listen_pc
    /\ outcome' = ""
    /\ UNCHANGED <<backoff, response_queue, sent, unanswered, cmd, wake_call, coord>>
    /\ UNCHANGED <<state, last_broadcast_time, now>>
    /\ UNCHANGED codecVars

\* start_listening(), lines 277-280: the sub-tasks start, the recv loop begins
ListenerSetup ==
    /\ backoff' = NoBackoff
    /\ heartbeat_task' = "running"
    /\ keepalive_task' = "running"
    /\ listener_active' = TRUE
    /\ listen_pc' = "reading"

\* a listener that ends after its finally block whatever _should_reconnect is
ListenerTeardown_gives_up ==
    /\ listener_active' = FALSE
    /\ robot_awake' = FALSE
    /\ connected_event' = FALSE
    /\ heartbeat_task' = Cancelled(heartbeat_task)
    /\ keepalive_task' = Cancelled(keepalive_task)
    /\ listen_pc' = "done"
    /\ UNCHANGED backoff

\* start_listening(), the finally block and what follows it: the loop ends if
\* _should_reconnect was cleared, else the backoff sleep begins
ListenerTeardown ==
    /\ listener_active' = FALSE
    /\ robot_awake' = FALSE
    /\ connected_event' = FALSE
    /\ heartbeat_task' = Cancelled(heartbeat_task)
    /\ keepalive_task' = Cancelled(keepalive_task)
    /\ IF should_reconnect THEN
           /\ listen_pc' = "backoff"
           /\ backoff' = [backoff EXCEPT
                             !.retries = Min(backoff.retries + 1, MaxRetries)]
       ELSE
           /\ listen_pc' = "done"
           /\ UNCHANGED backoff

\* start_listening() is called (as a task): up to the first suspension
StartListening ==
    /\ listen_pc \in {"none", "done", "cancelled"}
    /\ should_reconnect' = TRUE
    /\ IF connected
       THEN ListenerSetup
       ELSE /\ listen_pc' = "connecting"
            /\ backoff' = NoBackoff
            /\ UNCHANGED <<listener_active, heartbeat_task, keepalive_task>>
    /\ UNCHANGED <<ws, connected_event, response_queue, inbox, sent, unanswered,
                   cmd, wake_call, coord>>
    /\ UNCHANGED <<stateVars, codecVars>>

\* the listener's await self.connect() returns: the transport is open
ListenerConnected ==
    /\ listen_pc = "connecting"
    /\ ws' = "open"
    /\ connected_event' = TRUE
    /\ inbox' = <<>>
    /\ ListenerSetup
    /\ UNCHANGED <<should_reconnect, response_queue, sent, unanswered, cmd, wake_call, coord>>
    /\ UNCHANGED <<stateVars, codecVars>>

\* the listener's await self.connect() raises NarwalConnectionError
ListenerConnectFails ==
    /\ listen_pc = "connecting"
    /\ ListenerTeardown
    /\ UNCHANGED <<ws, should_reconnect, response_queue, inbox, sent, unanswered,
                   cmd, wake_call, coord>>
    /\ UNCHANGED <<state, outcome, last_broadcast_time, now>>
    /\ UNCHANGED codecVars

\* the recv loop finds the connection closed (by the peer, or by disconnect())
ListenerClosed ==
    /\ \/ listen_pc = "closing"
       \/ listen_pc = "reading" /\ ws = "closed" /\ inbox = <<>>
    /\ ListenerTeardown
    /\ UNCHANGED <<ws, should_reconnect, response_queue, inbox, sent, unanswered,
                   cmd, wake_call, coord>>
    /\ UNCHANGED <<state, outcome, last_broadcast_time, now>>
    /\ UNCHANGED codecVars

\* the sleep of retry_delay plus jitter, jitter being random.uniform(0, 1), in
\* ticks
Slept(b, jitter) == [b EXCEPT !.wait = b.retry_delay * TicksPerSecond + jitter]

\* the backoff sleep ends and retry_delay is doubled up to the maximum: the
\* loop exits if _should_reconnect was cleared, else it connects again (or
\* finds the client connected by the caller, which resets retry_delay)
ListenerBackoffDone ==
    /\ listen_pc = "backoff"
    /\ IF ~should_reconnect
       THEN /\ listen_pc' = "done"
            /\ \E jitter \in 0..TicksPerSecond :
                   backoff' = NextBackoff(Slept(backoff, jitter))
            /\ UNCHANGED <<listener_active, heartbeat_task, keepalive_task>>
       ELSE IF connected
       THEN ListenerSetup
       ELSE /\ listen_pc' = "connecting"
            /\ \E jitter \in 0..TicksPerSecond :
                   backoff' = NextBackoff(Slept(backoff, jitter))
            /\ UNCHANGED <<listener_active, heartbeat_task, keepalive_task>>
    /\ UNCHANGED <<ws, connected_event, should_reconnect, response_queue, inbox,
                   sent, unanswered, cmd, wake_call, coord>>
    /\ UNCHANGED <<stateVars, codecVars>>

\* a cancellation that ends the task wherever it is without the finally block
CancelListener_no_finally ==
    /\ listen_pc \in {"connecting", "reading", "closing", "backoff"}
    /\ listen_pc' = "cancelled"
    /\ UNCHANGED <<listener_active, robot_awake, connected_event,
                   heartbeat_task, keepalive_task>>
    /\ UNCHANGED <<ws, should_reconnect, backoff, response_queue, inbox, sent,
                   unanswered, cmd, wake_call, coord>>
    /\ UNCHANGED <<state, outcome, last_broadcast_time, now>>
    /\ UNCHANGED codecVars

\* the start_listening() task is cancelled.  While it connects or reads, the
\* CancelledError is caught inside the try: the finally block runs and the
\* function returns.  The backoff sleep is outside the try (the finally block
\* has run before it): the error ends the task there and then.
CancelListener ==
    /\ listen_pc \in {"connecting", "reading", "closing", "backoff"}
    /\ listen_pc' = "cancelled"
    /\ IF listen_pc = "backoff" THEN
           UNCHANGED <<listener_active, robot_awake, connected_event,
                       heartbeat_task, keepalive_task>>
       ELSE
           /\ listener_active' = FALSE
           /\ robot_awake' = FALSE
           /\ connected_event' = FALSE
           /\ heartbeat_task' = Cancelled(heartbeat_task)
           /\ keepalive_task' = Cancelled(keepalive_task)
    /\ UNCHANGED <<ws, should_reconnect, backoff, response_queue, inbox, sent,
                   unanswered, cmd, wake_call, coord>>
    /\ UNCHANGED <<state, outcome, last_broadcast_time, now>>
    /\ UNCHANGED codecVars

(***************************************************************************)
(* client.py: _handle_message; coordinator.py: _on_state_update            *)
(***************************************************************************)
\* coordinator.py constants, in seconds
STALE_GUARD_SECONDS == 120
DOCK_BATTERY_THRESHOLD == 95

\* the device state after the topic dispatch of _handle_message and of
\* _wait_for_field5_response for a decoded broadcast f; clear_map is the
\* listener's clearing of the live map when cleaning has ended
dispatch(s, f, clear_map) ==
    IF f.topic = BASE_STATUS THEN
        IF clear_map THEN handle_base_status(s, f.body)
        ELSE update_from_base_status(s, f.body)
    ELSE IF f.topic = DISPLAY_MAP THEN
        Ran([s EXCEPT !.map_display_data = Some("MapDisplayData")])
    ELSE Ran(s)

\* the push callback as it would be if the guard still held at the instant it
\* runs out
on_state_update_at_expiry(c, s, t) ==
    IF c.stale_guard_until > 0 /\ t <= c.stale_guard_until THEN c
    ELSE [c EXCEPT !.stale_guard_until = 0, !.published = Some(s),
                   !.fast_poll_remaining = 0,
                   !.update_interval = IF c.fast_poll_remaining > 0
                                       THEN POLL_INTERVAL ELSE @]

\* NarwalCoordinator._on_state_update(state): the coordinator after the push
\* callback, at clock t, the device state being s
on_state_update(c, s, t) ==
    IF c.stale_guard_until > 0 /\ t < c.stale_guard_until THEN c
    ELSE [c EXCEPT !.stale_guard_until = 0, !.published = Some(s),
                   !.fast_poll_remaining = 0,
                   !.update_interval = IF c.fast_poll_remaining > 0
                                       THEN POLL_INTERVAL ELSE @]

\* _handle_message as it would be if it took every frame received, parsed or
\* not, as a sign of a broadcasting robot
HandleMessage_garbage_awake(f, r) ==
    IF f.kind = "garbage" THEN
        /\ robot_awake' = TRUE
        /\ UNCHANGED <<state, outcome, last_broadcast_time,
                       response_queue, coord, connVars>>
    ELSE IF f.kind = "resp" THEN
        /\ response_queue' = Append(response_queue, f)
        /\ UNCHANGED <<state, outcome, robot_awake, last_broadcast_time,
                       coord, connVars>>
    ELSE IF ~f.decodable THEN
        /\ last_broadcast_time' = now
        /\ robot_awake' = TRUE
        /\ UNCHANGED <<state, outcome, response_queue, coord, connVars>>
    ELSE IF r.exc # "" THEN
        /\ last_broadcast_time' = now
        /\ state' = r.state
        /\ outcome' = r.exc
        /\ ListenerTeardown
        /\ UNCHANGED <<ws, should_reconnect, response_queue, coord>>
    ELSE
        /\ last_broadcast_time' = now
        /\ robot_awake' = TRUE
        /\ state' = r.state
        /\ outcome' = ""
        /\ coord' = IF coord.registered
                    THEN on_state_update(coord, r.state, now)
                    ELSE coord
        /\ UNCHANGED <<response_queue, connVars>>

\* _handle_message as it would be if it routed a response after noting the
\* time of the frame
HandleMessage_response_timed(f, r) ==
    IF f.kind = "garbage" THEN
        UNCHANGED <<state, outcome, robot_awake, last_broadcast_time,
                    response_queue, coord, connVars>>
    ELSE IF f.kind = "resp" THEN
        /\ response_queue' = Append(response_queue, f)
        /\ last_broadcast_time' = now
        /\ UNCHANGED <<state, outcome, robot_awake, coord, connVars>>
    ELSE IF ~f.decodable THEN
        /\ last_broadcast_time' = now
        /\ robot_awake' = TRUE
        /\ UNCHANGED <<state, outcome, response_queue, coord, connVars>>
    ELSE IF r.exc # "" THEN
        /\ last_broadcast_time' = now
        /\ state' = r.state
        /\ outcome' = r.exc
        /\ ListenerTeardown
        /\ UNCHANGED <<ws, should_reconnect, response_queue, coord>>
    ELSE
        /\ last_broadcast_time' = now
        /\ robot_awake' = TRUE
        /\ state' = r.state
        /\ outcome' = ""
        /\ coord' = IF coord.registered
                    THEN on_state_update(coord, r.state, now)
                    ELSE coord
        /\ UNCHANGED <<response_queue, connVars>>

\* _handle_message(f) in the listener, r being what the topic's handler makes
\* of the state: a response is queued, a broadcast marks the robot awake and is
\* applied and pushed to the coordinator; an exception of the handler ends the
\* recv loop ("Unexpected error in listener")
HandleMessage(f, r) ==
    IF f.kind = "garbage" THEN
        UNCHANGED <<state, outcome, robot_awake, last_broadcast_time,
                    response_queue, coord, connVars>>
    ELSE IF f.kind = "resp" THEN
        /\ response_queue' = Append(response_queue, f)
        /\ UNCHANGED <<state, outcome, robot_awake, last_broadcast_time,
                       coord, connVars>>
    ELSE IF ~f.decodable THEN
        /\ last_broadcast_time' = now
        /\ robot_awake' = TRUE
        /\ UNCHANGED <<state, outcome, response_queue, coord, connVars>>
    ELSE IF r.exc # "" THEN
        /\ last_broadcast_time' = now
        /\ state' = r.state
        /\ outcome' = r.exc
        /\ ListenerTeardown
        /\ UNCHANGED <<ws, should_reconnect, response_queue, coord>>
    ELSE
        /\ last_broadcast_time' = now
        /\ robot_awake' = TRUE
        /\ state' = r.state
        /\ outcome' = ""
        /\ coord' = IF coord.registered
                    THEN on_state_update(coord, r.state, now)
                    ELSE coord
        /\ UNCHANGED <<response_queue, connVars>>

\* the listener reads the next frame and runs _handle_message on it
ListenerRead ==
    /\ listen_pc = "reading"
    /\ inbox # <<>>
    /\ inbox' = Tail(inbox)
    /\ HandleMessage(Head(inbox), dispatch(state, Head(inbox), TRUE))
    /\ wake_call' = IF wake_call.pc \in {"burst", "waiting"} /\ Head(inbox).kind = "bcast"
                    THEN [wake_call EXCEPT !.broadcasts = TRUE]
                    ELSE wake_call
    /\ UNCHANGED <<sent, unanswered, cmd, now>>
    /\ UNCHANGED codecVars

\* the device sends a frame of F
DeviceSends(F) ==
    /\ ws = "open"
    /\ \E f \in F :
        /\ Len(inbox) < MaxInbox
        /\ inbox' = Append(inbox, f)
    /\ UNCHANGED <<connVars, response_queue, sent, unanswered, cmd, wake_call, coord>>
    /\ UNCHANGED <<stateVars, codecVars>>

(***************************************************************************)
(* client.py: send_command, _wait_for_field5_response, get_status          *)
(***************************************************************************)
\* NarwalState.update_battery_from_base_status(decoded): battery level
\* (field 2) and battery health (field 38) only
update_battery_from_base_status(s, d) ==
    LET r == apply_battery(s, d)
    IN  IF r.exc = "" THEN apply_health(r.state, d) ELSE r

\* send_command as it would be without the drain of lines 616-621: the queued
\* responses stay queued
IssueCommand_without_drain(op, full_update, timeout, serial) ==
    LET call == [NoCommand EXCEPT !.id = serial, !.op = op,
                                  !.full_update = full_update,
                                  !.timed_out = cmd.timed_out]
    IN  IF ~connected THEN
            /\ cmd' = [call EXCEPT !.pc = "done", !.outcome = "NarwalConnectionError"]
            /\ UNCHANGED <<response_queue, sent, unanswered>>
        ELSE IF ws # "open" THEN
            /\ cmd' = [call EXCEPT !.pc = "done", !.outcome = "ConnectionClosed",
                                   !.drained = response_queue]
            /\ UNCHANGED <<response_queue, sent, unanswered>>
        ELSE
            /\ sent' = sent + 1
            /\ unanswered' = unanswered \cup {serial}
            /\ cmd' = [call EXCEPT
                         !.pc = IF listener_active THEN "queue" ELSE "direct",
                         !.deadline = now + timeout,
                         !.chunk_end = now + Min(timeout, TicksPerSecond),
                         !.drained = response_queue,
                         !.wrote = TRUE]
            /\ UNCHANGED response_queue

\* send_command(op, timeout) up to its wait: the connection check, the drain
\* of the response queue, the write; `serial` is the serial of the call
IssueCommand(op, full_update, timeout, serial) ==
    LET call == [NoCommand EXCEPT !.id = serial, !.op = op,
                                  !.full_update = full_update,
                                  !.timed_out = cmd.timed_out]
    IN  IF ~connected THEN
            /\ cmd' = [call EXCEPT !.pc = "done", !.outcome = "NarwalConnectionError"]
            /\ UNCHANGED <<response_queue, sent, unanswered>>
        ELSE IF ws # "open" THEN
            /\ response_queue' = <<>>
            /\ cmd' = [call EXCEPT !.pc = "done", !.outcome = "ConnectionClosed",
                                   !.drained = response_queue]
            /\ UNCHANGED <<sent, unanswered>>
        ELSE
            /\ response_queue' = <<>>
            /\ sent' = sent + 1
            /\ unanswered' = unanswered \cup {serial}
            /\ cmd' = [call EXCEPT
                         !.pc = IF listener_active THEN "queue" ELSE "direct",
                         !.deadline = now + timeout,
                         !.chunk_end = now + Min(timeout, TicksPerSecond),
                         !.drained = response_queue,
                         !.wrote = TRUE]

\* send_command returns the response frame f; get_status then applies the
\* nested status message: the call and the device state after it
Returned(c, s, f) ==
    LET resp == decode_response(f)
        done == [c EXCEPT !.pc = "done", !.outcome = "", !.msg = f, !.resp = resp]
    IN  IF c.op = "get_status" /\ resp.has_body THEN
            LET r == IF c.full_update
                     THEN update_from_base_status(s, resp.body)
                     ELSE update_battery_from_base_status(s, resp.body)
            IN  [cmd |-> [done EXCEPT !.outcome = r.exc, !.applied = TRUE],
                 state |-> r.state]
        ELSE [cmd |-> done, state |-> s]

\* the call has ended as r: the caller's record and the device state
Ends(r) == cmd' = r.cmd /\ state' = r.state

\* the call ends by raising exc
Raises(c, exc) ==
    [c EXCEPT !.pc = "done", !.outcome = exc,
              !.timed_out = IF exc = "NarwalCommandError" /\ c.op # "discover"
                            THEN c.timed_out \cup {c.id} ELSE c.timed_out]

\* listener path: the awaited queue.get() delivers the oldest queued response
CmdQueueGet ==
    /\ cmd.pc = "queue"
    /\ response_queue # <<>>
    /\ Ends(Returned(cmd, state, Head(response_queue)))
    /\ response_queue' = Tail(response_queue)
    /\ UNCHANGED <<connVars, inbox, sent, unanswered, wake_call, coord>>
    /\ UNCHANGED <<outcome, robot_awake, last_broadcast_time, now>>
    /\ UNCHANGED codecVars

\* listener path: wait_for() expires with the queue empty
CmdQueueTimeout ==
    /\ cmd.pc = "queue"
    /\ response_queue = <<>>
    /\ now >= cmd.deadline
    /\ cmd' = Raises(cmd, "NarwalCommandError")
    /\ UNCHANGED <<connVars, response_queue, inbox, sent, unanswered, wake_call, coord>>
    /\ UNCHANGED <<stateVars, codecVars>>

\* the loop of _wait_for_field5_response as it would be with a recv() timeout
\* of 1.0 whatever remains until the deadline
NextPass_whole_second(c) ==
    IF now < c.deadline
    THEN [c EXCEPT !.chunk_end = now + TicksPerSecond]
    ELSE Raises(c, "NarwalCommandError")

\* _wait_for_field5_response: after a pass of the loop body, the while test
\* and the next recv() with timeout min(remaining, 1.0)
NextPass(c) ==
    IF now < c.deadline
    THEN [c EXCEPT !.chunk_end = now + Min(c.deadline - now, TicksPerSecond)]
    ELSE Raises(c, "NarwalCommandError")

\* direct path: a broadcast has been applied as r; the exception of its
\* handler ends the call, else the wait goes on
Applies(r) ==
    /\ state' = r.state
    /\ cmd' = IF r.exc # "" THEN Raises(cmd, r.exc) ELSE NextPass(cmd)

\* direct path: recv() delivers a frame; a response ends the call, a
\* broadcast is applied to the device state, anything else is skipped
CmdDirectRead ==
    /\ cmd.pc = "direct"
    /\ inbox # <<>>
    /\ LET f == Head(inbox)
       IN  /\ inbox' = Tail(inbox)
           /\ IF f.kind = "resp" THEN
                  Ends(Returned(cmd, state, f))
              ELSE IF f.kind = "bcast" /\ f.decodable THEN
                  Applies(dispatch(state, f, FALSE))
              ELSE
                  /\ cmd' = NextPass(cmd)
                  /\ UNCHANGED state
    /\ UNCHANGED <<connVars, response_queue, sent, unanswered, wake_call, coord>>
    /\ UNCHANGED <<outcome, robot_awake, last_broadcast_time, now>>
    /\ UNCHANGED codecVars

\* direct path: recv() times out after min(remaining, 1.0)
CmdDirectTimeout ==
    /\ cmd.pc = "direct"
    /\ inbox = <<>>
    /\ ws = "open"
    /\ now >= cmd.chunk_end
    /\ cmd' = NextPass(cmd)
    /\ UNCHANGED <<connVars, response_queue, inbox, sent, unanswered, wake_call, coord>>
    /\ UNCHANGED <<stateVars, codecVars>>

\* direct path: recv() finds the connection closed, which
\* _wait_for_field5_response does not catch
CmdDirectClosed ==
    /\ cmd.pc = "direct"
    /\ inbox = <<>>
    /\ ws # "open"
    /\ cmd' = Raises(cmd, "ConnectionClosed")
    /\ UNCHANGED <<connVars, response_queue, inbox, sent, unanswered, wake_call, coord>>
    /\ UNCHANGED <<stateVars, codecVars>>

(***************************************************************************)
(* Calls made by the user of the client, and the device's answers          *)
(***************************************************************************)
\* no call is in progress
Idle == cmd.pc \in {"idle", "done"} /\ wake_call.pc \in {"idle", "done"}

\* the calls built on send_command: a command (start, stop, locate, ...) and
\* get_status(full_update)
Command == <<"command", TRUE>>
StatusQueries == {<<"get_status", TRUE>>, <<"get_status", FALSE>>}

\* a call of Ops is made with a timeout of T
SendCommand(Ops, T) ==
    /\ Idle
    /\ coord.pc = "idle"
    /\ cmd.id < MaxCommands
    /\ sent < MaxSent
    /\ \E call \in Ops, timeout \in T :
        IssueCommand(call[1], call[2], timeout, cmd.id + 1)
    /\ UNCHANGED <<connVars, inbox, wake_call, coord>>
    /\ UNCHANGED <<stateVars, codecVars>>

\* send_raw(topic, payload): the connection check, then the write
SendRaw ==
    /\ Idle
    /\ coord.pc = "idle"
    /\ sent < MaxRaw
    /\ IF ~connected THEN
           /\ outcome' = "NarwalConnectionError"
           /\ UNCHANGED sent
       ELSE IF ws # "open" THEN
           /\ outcome' = "ConnectionClosed"
           /\ UNCHANGED sent
       ELSE
           /\ outcome' = ""
           /\ sent' = sent + 1
    /\ UNCHANGED <<connVars, response_queue, inbox, unanswered, cmd, wake_call, coord>>
    /\ UNCHANGED <<state, robot_awake, last_broadcast_time, now>>
    /\ UNCHANGED codecVars

\* the device answers a command it has received with a response frame of F
DeviceAnswers(F) ==
    /\ ws = "open"
    /\ Len(inbox) < MaxInbox
    /\ \E id \in unanswered, f \in F :
        /\ inbox' = Append(inbox, [f EXCEPT !.re = id])
        /\ unanswered' = unanswered \ {id}
    /\ UNCHANGED <<connVars, response_queue, sent, cmd, wake_call, coord>>
    /\ UNCHANGED <<stateVars, codecVars>>

(***************************************************************************)
(* client.py: wake, _send_wake_burst                                       *)
(***************************************************************************)
\* len(_build_wake_commands()): the frames of one wake burst
WakeBurstFrames == 7
\* wake(): seconds waited for a broadcast after each burst
WakeWaitSeconds == 5

\* _send_wake_burst(): the frames it writes (none when not connected, or when
\* the first write fails)
BurstFrames == IF connected /\ ws = "open" THEN WakeBurstFrames ELSE 0

\* wake(timeout) is called, timeout in T: up to its first sleep
\* wake(timeout), up to its first sleep
BeginWake(timeout) ==
    LET call == [NoWake EXCEPT !.before = state]
    IN  IF robot_awake THEN
            /\ wake_call' = [call EXCEPT !.pc = "done", !.result = "true"]
            /\ UNCHANGED sent
        ELSE IF ~connected THEN
            /\ wake_call' = [call EXCEPT !.pc = "done",
                                         !.result = "NarwalConnectionError"]
            /\ UNCHANGED sent
        ELSE IF timeout <= 0 THEN
            /\ wake_call' = [call EXCEPT !.pc = "done", !.result = "false"]
            /\ UNCHANGED sent
        ELSE
            /\ wake_call' = [call EXCEPT
                  !.pc = "waiting",
                  !.deadline = now + timeout,
                  !.wait_end = Min(now + WakeWaitSeconds * TicksPerSecond,
                                   now + timeout),
                  !.frames = BurstFrames]
            /\ sent' = sent + BurstFrames

WakeCall(T) ==
    /\ Idle
    /\ coord.pc = "idle"
    /\ sent + WakeBurstFrames <= MaxSent
    /\ \E timeout \in T : BeginWake(timeout)
    /\ UNCHANGED <<connVars, response_queue, inbox, unanswered, cmd, coord>>
    /\ UNCHANGED <<stateVars, codecVars>>

\* the inner loop of wake() as it would be if it returned True at any poll
WakeObserve_without_flag ==
    /\ wake_call.pc = "waiting"
    /\ now < wake_call.wait_end
    /\ wake_call' = [wake_call EXCEPT !.pc = "done", !.result = "true"]
    /\ UNCHANGED <<connVars, response_queue, inbox, sent, unanswered, cmd, coord>>
    /\ UNCHANGED <<stateVars, codecVars>>

\* wake(): the inner loop finds _robot_awake set
WakeObserve ==
    /\ wake_call.pc = "waiting"
    /\ now < wake_call.wait_end
    /\ robot_awake
    /\ wake_call' = [wake_call EXCEPT !.pc = "done", !.result = "true"]
    /\ UNCHANGED <<connVars, response_queue, inbox, sent, unanswered, cmd, coord>>
    /\ UNCHANGED <<stateVars, codecVars>>

\* wake(): the inner loop ends; the next burst, or False at the deadline
WakeWaitEnd ==
    /\ wake_call.pc = "waiting"
    /\ now >= wake_call.wait_end
    /\ IF now < wake_call.deadline THEN
           /\ wake_call' = [wake_call EXCEPT
                 !.wait_end = Min(now + WakeWaitSeconds * TicksPerSecond,
                                  wake_call.deadline),
                 !.frames = wake_call.frames + BurstFrames]
           /\ sent' = sent + BurstFrames
       ELSE
           /\ wake_call' = [wake_call EXCEPT !.pc = "done", !.result = "false"]
           /\ UNCHANGED sent
    /\ UNCHANGED <<connVars, response_queue, inbox, unanswered, cmd, coord>>
    /\ UNCHANGED <<stateVars, codecVars>>

(***************************************************************************)
(* client.py: discover_device_id                                           *)
(***************************************************************************)
\* discover_device_id(): seconds one recv() waits
DiscoverRecvSeconds == 2

\* discover_device_id(timeout) is called where no listener reads the socket:
\* the connection check, the two wake frames (a failed write is only logged)
DiscoverCall(T) ==
    /\ Idle
    /\ coord.pc = "idle"
    /\ ~listener_active
    /\ sent + 2 <= MaxSent
    /\ \E timeout \in T :
        LET call == [NoCommand EXCEPT !.id = cmd.id, !.op = "discover",
                                          !.timed_out = cmd.timed_out]
        IN  IF ~connected THEN
                /\ cmd' = Raises(call, "NarwalConnectionError")
                /\ UNCHANGED sent
            ELSE
                /\ sent' = sent + (IF ws = "open" THEN 2 ELSE 0)
                /\ cmd' = IF timeout <= 0 THEN Raises(call, "NarwalCommandError")
                          ELSE [call EXCEPT
                                  !.pc = "discover",
                                  !.deadline = now + timeout,
                                  !.chunk_end = now + Min(timeout,
                                        DiscoverRecvSeconds * TicksPerSecond),
                                  !.wrote = ws = "open"]
    /\ UNCHANGED <<connVars, response_queue, inbox, unanswered, wake_call, coord>>
    /\ UNCHANGED <<stateVars, codecVars>>

\* discover_device_id(): the while test and the next recv()
NextDiscoverPass(c) ==
    IF now < c.deadline
    THEN [c EXCEPT !.chunk_end = now + Min(c.deadline - now,
                                           DiscoverRecvSeconds * TicksPerSecond)]
    ELSE Raises(c, "NarwalCommandError")

\* discover_device_id(): recv() delivers a frame; a response carrying field 2,
\* or any broadcast, gives the device id
DiscoverRead ==
    /\ cmd.pc = "discover"
    /\ inbox # <<>>
    /\ LET f == Head(inbox)
       IN  /\ inbox' = Tail(inbox)
           /\ cmd' = IF \/ f.kind = "resp" /\ f.decodable /\ f.has_body
                        \/ f.kind = "bcast"
                     THEN [cmd EXCEPT !.pc = "done", !.outcome = "", !.msg = f]
                     ELSE NextDiscoverPass(cmd)
    /\ UNCHANGED <<connVars, response_queue, sent, unanswered, wake_call, coord>>
    /\ UNCHANGED <<stateVars, codecVars>>

\* discover_device_id(): recv() times out; a wake frame is sent again
DiscoverTimeout ==
    /\ cmd.pc = "discover"
    /\ inbox = <<>>
    /\ ws = "open"
    /\ now >= cmd.chunk_end
    /\ sent < MaxSent
    /\ sent' = sent + 1
    /\ cmd' = NextDiscoverPass(cmd)
    /\ UNCHANGED <<connVars, response_queue, inbox, unanswered, wake_call, coord>>
    /\ UNCHANGED <<stateVars, codecVars>>

\* discover_device_id(): recv() finds the connection closed
DiscoverClosed ==
    /\ cmd.pc = "discover"
    /\ inbox = <<>>
    /\ ws # "open"
    /\ cmd' = Raises(cmd, "ConnectionClosed")
    /\ UNCHANGED <<connVars, response_queue, inbox, sent, unanswered, wake_call, coord>>
    /\ UNCHANGED <<stateVars, codecVars>>

(***************************************************************************)
(* client.py: _keepalive_loop                                              *)
(***************************************************************************)
\* const.py, in seconds
BROADCAST_STALE_TIMEOUT == 45
COMMAND_RESPONSE_TIMEOUT == 5

\* one pass of the keepalive loop after its sleep: a robot whose last
\* broadcast is older than BROADCAST_STALE_TIMEOUT is taken to be asleep (the
\* heartbeat or wake frames the pass writes are not counted in `sent`)
KeepaliveCheck ==
    /\ keepalive_task = "running"
    /\ connected
    /\ robot_awake
    /\ last_broadcast_time > 0
    /\ now - last_broadcast_time > BROADCAST_STALE_TIMEOUT * TicksPerSecond
    /\ robot_awake' = FALSE
    /\ UNCHANGED <<state, outcome, last_broadcast_time, now>>
    /\ UNCHANGED <<codecVars, clientVars>>

\* a pass in which the stale check clears the flag and the branch is chosen by
\* the flag as it was before the check
KeepaliveTick_old_flag ==
    LET stale == /\ robot_awake
                 /\ last_broadcast_time > 0
                 /\ now - last_broadcast_time > BROADCAST_STALE_TIMEOUT * TicksPerSecond
        awake == robot_awake /\ ~stale
    IN  /\ keepalive_task = "running"
        /\ connected
        /\ sent + WakeBurstFrames <= MaxSent
        /\ robot_awake' = awake
        /\ IF robot_awake THEN
               IF ws = "open" THEN
                   /\ sent' = sent + 1
                   /\ UNCHANGED keepalive_task
               ELSE
                   /\ keepalive_task' = "done"
                   /\ UNCHANGED sent
           ELSE
               /\ sent' = sent + BurstFrames
               /\ UNCHANGED keepalive_task
        /\ UNCHANGED <<ws, connected_event, should_reconnect, listener_active,
                       listen_pc, backoff, heartbeat_task, response_queue, inbox,
                       unanswered, cmd, wake_call, coord>>
        /\ UNCHANGED <<state, outcome, last_broadcast_time, now>>
        /\ UNCHANGED codecVars

\* one whole pass of the keepalive loop after its sleep, the frames it writes
\* counted in `sent`: the stale check, then one heartbeat frame while the robot
\* is awake (a failed write ends the loop), a wake burst otherwise
KeepaliveTick ==
    LET stale == /\ robot_awake
                 /\ last_broadcast_time > 0
                 /\ now - last_broadcast_time > BROADCAST_STALE_TIMEOUT * TicksPerSecond
        awake == robot_awake /\ ~stale
    IN  /\ keepalive_task = "running"
        /\ connected
        /\ sent + WakeBurstFrames <= MaxSent
        /\ robot_awake' = awake
        /\ IF awake THEN
               IF ws = "open" THEN
                   /\ sent' = sent + 1
                   /\ UNCHANGED keepalive_task
               ELSE
                   /\ keepalive_task' = "done"
                   /\ UNCHANGED sent
           ELSE
               /\ sent' = sent + BurstFrames
               /\ UNCHANGED keepalive_task
        /\ UNCHANGED <<ws, connected_event, should_reconnect, listener_active,
                       listen_pc, backoff, heartbeat_task, response_queue, inbox,
                       unanswered, cmd, wake_call, coord>>
        /\ UNCHANGED <<state, outcome, last_broadcast_time, now>>
        /\ UNCHANGED codecVars

(***************************************************************************)
(* coordinator.py: NarwalCoordinator                                       *)
(*                                                                         *)
(* coord.pc is the await at which async_setup or _async_update_data is     *)
(* suspended; of async_setup's calls, get_device_info(), get_map() and the *)
(* wait for a first status touch no field held here and are left out.      *)
(***************************************************************************)
\* polls made in one run, and fast polls made in one run
MaxPolls == 2
MaxFastPolls == 7
\* seconds of the wake() calls of async_setup and _async_update_data, and of
\* the sleep of _fix_deep_sleep_state
SetupWakeSeconds == 5
PollWakeSeconds == 20
FixSleepSeconds == 3

\* the coordinator is suspended in a client call that has ended: it resumes
\* before anything else runs
CoordResumes ==
    \/ coord.pc \in {"status", "fix_stop", "fix_locate", "fix_status"} /\ cmd.pc = "done"
    \/ coord.pc = "waking" /\ wake_call.pc = "done"

\* a send_command of the coordinator (stop, locate, get_status)
CoordCommand(op) ==
    IssueCommand(op, TRUE, COMMAND_RESPONSE_TIMEOUT * TicksPerSecond, cmd.id + 1)

\* async_set_updated_data(state): the platform is handed the device state
Publish(c, s) == [c EXCEPT !.pc = "idle", !.published = Some(s)]

\* _async_update_data, lines 313-325: the fast poll countdown at the end of a
\* poll that has not raised
fast_poll_countdown(c, s) ==
    IF c.fast_poll_remaining <= 0 THEN c
    ELSE IF s.working_status # UNKNOWN THEN
        [c EXCEPT !.fast_poll_remaining = 0, !.update_interval = POLL_INTERVAL]
    ELSE
        [c EXCEPT !.fast_poll_remaining = @ - 1,
                  !.update_interval = IF c.fast_poll_remaining - 1 <= 0
                                      THEN POLL_INTERVAL ELSE @]

\* the end of async_setup (lines 142-151: fast polling begins if the mode is
\* still unknown) or of a poll (the countdown)
EndOfRound(c, s) ==
    IF c.round = "startup" THEN
        IF s.working_status = UNKNOWN
        THEN [c EXCEPT !.fast_poll_remaining = FAST_POLL_MAX,
                       !.update_interval = FAST_POLL_INTERVAL]
        ELSE c
    ELSE fast_poll_countdown(c, s)

\* async_setup, lines 83-93: connect(), the push callback, the listener task
AsyncSetup ==
    /\ ~coord.registered
    /\ coord.pc = "idle"
    /\ listen_pc = "none"
    /\ ws = "none"
    /\ Idle
    /\ \/ /\ ws' = "open"
          /\ connected_event' = TRUE
          /\ should_reconnect' = TRUE
          /\ ListenerSetup
          /\ coord' = [coord EXCEPT !.registered = TRUE, !.pc = "setup",
                                    !.round = "startup"]
          /\ outcome' = ""
       \/ /\ outcome' = "NarwalConnectionError"
          /\ UNCHANGED <<connVars, coord>>
    /\ UNCHANGED <<response_queue, inbox, sent, unanswered, cmd, wake_call>>
    /\ UNCHANGED <<state, robot_awake, last_broadcast_time, now>>
    /\ UNCHANGED codecVars

\* _async_update_data, lines 277-281: connect() if the client is not connected
AsyncUpdateData ==
    /\ coord.registered
    /\ coord.pc = "idle"
    /\ coord.polls < (IF coord.update_interval = FAST_POLL_INTERVAL
                      THEN MaxFastPolls ELSE MaxPolls)
    /\ Idle
    /\ LET c == [coord EXCEPT !.polls = @ + 1, !.round = "poll",
                              !.stop_result = "none"]
       IN  IF connected THEN
               /\ coord' = [c EXCEPT !.pc = "poll"]
               /\ UNCHANGED <<ws, connected_event, inbox, outcome>>
           ELSE
               /\ listen_pc \notin {"connecting", "reading", "closing"}
               /\ \/ /\ ws' = "open"
                     /\ connected_event' = TRUE
                     /\ inbox' = <<>>
                     /\ coord' = [c EXCEPT !.pc = "poll"]
                     /\ outcome' = ""
                  \/ /\ outcome' = "UpdateFailed"
                     /\ coord' = c
                     /\ UNCHANGED <<ws, connected_event, inbox>>
    /\ UNCHANGED <<should_reconnect, listener_active, listen_pc, backoff, heartbeat_task,
                   keepalive_task, response_queue, sent, unanswered, cmd, wake_call>>
    /\ UNCHANGED <<state, robot_awake, last_broadcast_time, now>>
    /\ UNCHANGED codecVars

\* async_setup line 96: wake(5.0); _async_update_data lines 284-289:
\* wake(20.0) if the robot is not broadcasting, else get_status at once
CoordWake ==
    /\ coord.pc \in {"setup", "poll"}
    /\ IF coord.pc = "poll" /\ robot_awake THEN
           /\ CoordCommand("get_status")
           /\ coord' = [coord EXCEPT !.pc = "status"]
           /\ UNCHANGED wake_call
       ELSE
           /\ BeginWake((IF coord.pc = "setup" THEN SetupWakeSeconds
                         ELSE PollWakeSeconds) * TicksPerSecond)
           /\ coord' = [coord EXCEPT !.pc = "waking"]
           /\ UNCHANGED <<response_queue, unanswered, cmd>>
    /\ UNCHANGED <<connVars, inbox>>
    /\ UNCHANGED <<stateVars, codecVars>>

\* wake() has ended: get_status(full_update=True) (lines 105 and 289); the
\* connection error of wake() ends the setup or the poll
CoordStatus ==
    /\ coord.pc = "waking"
    /\ wake_call.pc = "done"
    /\ IF wake_call.result = "NarwalConnectionError" THEN
           /\ coord' = [coord EXCEPT !.pc = "idle"]
           /\ outcome' = "UpdateFailed"
           /\ UNCHANGED <<response_queue, sent, unanswered, cmd>>
       ELSE
           /\ CoordCommand("get_status")
           /\ coord' = [coord EXCEPT !.pc = "status"]
           /\ UNCHANGED outcome
    /\ UNCHANGED <<connVars, inbox, wake_call>>
    /\ UNCHANGED <<state, robot_awake, last_broadcast_time, now>>
    /\ UNCHANGED codecVars

\* the deep sleep test as it would be without the robot-is-broadcasting flag
DeepSleep_flag_ignored(s) ==
    /\ s.battery_level >= DOCK_BATTERY_THRESHOLD
    /\ s.working_status \notin {DOCKED, CHARGED, UNKNOWN}

\* the deep sleep test of lines 127-133 and 297-303
DeepSleep(s) ==
    /\ ~robot_awake
    /\ s.battery_level >= DOCK_BATTERY_THRESHOLD
    /\ s.working_status \notin {DOCKED, CHARGED, UNKNOWN}

\* get_status has ended: a failure ends the poll (UpdateFailed) and is only
\* logged by the setup; then the deep sleep test, and either the verification
\* round begins (stop() if the mode is cleaning, else locate()) or the state is
\* handed to the platform
CoordAfterStatus ==
    /\ coord.pc = "status"
    /\ cmd.pc = "done"
    /\ IF coord.round = "poll" /\ cmd.outcome # "" THEN
           /\ coord' = [coord EXCEPT !.pc = "idle"]
           /\ outcome' = "UpdateFailed"
           /\ UNCHANGED <<response_queue, sent, unanswered, cmd>>
       ELSE IF DeepSleep(state) THEN
           /\ IF state.working_status \in {CLEANING, CLEANING_ALT}
              THEN /\ CoordCommand("stop")
                   /\ coord' = [coord EXCEPT !.pc = "fix_stop"]
              ELSE /\ CoordCommand("locate")
                   /\ coord' = [coord EXCEPT !.pc = "fix_locate"]
           /\ UNCHANGED outcome
       ELSE
           /\ coord' = EndOfRound(Publish(coord, state), state)
           /\ UNCHANGED <<outcome, response_queue, sent, unanswered, cmd>>
    /\ UNCHANGED <<connVars, inbox, wake_call>>
    /\ UNCHANGED <<state, robot_awake, last_broadcast_time, now>>
    /\ UNCHANGED codecVars

\* _fix_deep_sleep_state, lines 214-237: stop() has ended; locate()
CoordAfterStop ==
    /\ coord.pc = "fix_stop"
    /\ cmd.pc = "done"
    /\ CoordCommand("locate")
    /\ coord' = [coord EXCEPT
          !.pc = "fix_locate",
          !.stop_result = IF cmd.msg.kind # "resp" THEN "failed"
                          ELSE IF not_applicable(cmd.resp) THEN "not_applicable"
                          ELSE IF success(cmd.resp) THEN "success"
                          ELSE "other"]
    /\ UNCHANGED <<connVars, inbox, wake_call>>
    /\ UNCHANGED <<stateVars, codecVars>>

\* _fix_deep_sleep_state, line 240: locate() has ended; sleep(3.0)
CoordAfterLocate ==
    /\ coord.pc = "fix_locate"
    /\ cmd.pc = "done"
    /\ coord' = [coord EXCEPT !.pc = "fix_sleep",
                              !.sleep_end = now + FixSleepSeconds * TicksPerSecond]
    /\ UNCHANGED <<connVars, response_queue, inbox, sent, unanswered, cmd, wake_call>>
    /\ UNCHANGED <<stateVars, codecVars>>

\* _fix_deep_sleep_state, lines 243-246: the sleep has ended; the re-query
CoordAfterSleep ==
    /\ coord.pc = "fix_sleep"
    /\ now >= coord.sleep_end
    /\ CoordCommand("get_status")
    /\ coord' = [coord EXCEPT !.pc = "fix_status"]
    /\ UNCHANGED <<connVars, inbox, wake_call>>
    /\ UNCHANGED <<stateVars, codecVars>>

\* the override as it would be if it only set the mode
override_docked_mode_only(s) == [s EXCEPT !.working_status = DOCKED]

\* _fix_deep_sleep_state, lines 264-266: the override to DOCKED
override_docked(s) ==
    [s EXCEPT !.working_status = DOCKED, !.is_paused = FALSE,
              !.is_returning_to_dock = FALSE]

\* _fix_deep_sleep_state, lines 249-269: the re-query has ended; a mode
\* refreshed to DOCKED or CHARGED is kept, any other is overridden and the
\* guard is set; the state is then handed to the platform
CoordAfterRequery ==
    /\ coord.pc = "fix_status"
    /\ cmd.pc = "done"
    /\ IF state.working_status \in {DOCKED, CHARGED} THEN
           /\ coord' = EndOfRound(Publish(coord, state), state)
           /\ UNCHANGED state
       ELSE
           /\ state' = override_docked(state)
           /\ coord' = EndOfRound(
                           Publish([coord EXCEPT !.stale_guard_until =
                                       now + STALE_GUARD_SECONDS * TicksPerSecond],
                                   override_docked(state)),
                           override_docked(state))
    /\ UNCHANGED <<connVars, response_queue, inbox, sent, unanswered, cmd, wake_call>>
    /\ UNCHANGED <<outcome, robot_awake, last_broadcast_time, now>>
    /\ UNCHANGED codecVars

\* the time until the next timer of wake() or of the verification round is
\* due, or the length of the guard when none is armed
NextTimer ==
    IF wake_call.pc = "waiting" THEN wake_call.wait_end - now
    ELSE IF coord.pc = "fix_sleep" THEN coord.sleep_end - now
    ELSE STALE_GUARD_SECONDS * TicksPerSecond

(***************************************************************************)
(* Frames the device sends                                                 *)
(***************************************************************************)
\* float32 bit patterns of 80.0 and 100.0
Bits80 == IntV(1117782016)
Bits100 == IntV(1120403456)

\* status messages: docked at 80 %, cleaning and returning at 85 % (the
\* test suite's stale response), cleaning at 100 %, charged at 100 %, and one
\* whose field 38 int() rejects
DockedAt80 ==
    [EmptyDecoded EXCEPT !.k3 = Field3(IntV(DOCKED), Absent, Absent, Absent, IntV(1), Absent),
                         !.k2 = Bits80]
CleaningAt85 ==
    [EmptyDecoded EXCEPT !.k3 = Field3(IntV(CLEANING), Absent, Absent, IntV(1), Absent, Absent),
                         !.k2 = Bits85, !.k38 = IntV(100)]
CleaningAt100 ==
    [EmptyDecoded EXCEPT !.k3 = Field3(IntV(CLEANING), Absent, Absent, Absent, Absent, Absent),
                         !.k2 = Bits100]
ChargedAt100 ==
    [EmptyDecoded EXCEPT !.k3 = Field3(IntV(CHARGED), Absent, Absent, Absent, Absent, IntV(2)),
                         !.k2 = Bits100]
BadHealth ==
    [EmptyDecoded EXCEPT !.k3 = Field3(IntV(STANDBY), Absent, Absent, Absent, Absent, Absent),
                         !.k38 = BytesV(1)]

\* field 1 of a response: absent, result codes, a code outside the enum,
\* echoed bytes, a nested message
Field1Values ==
    {Absent, IntV(0), IntV(SUCCESS), IntV(NOT_APPLICABLE), IntV(CONFLICT), IntV(7),
     BytesV(1), DictV(1)}

\* responses with every kind of field 1, and one that cannot be decoded
ResultResponses ==
    {Response(0, k1) : k1 \in Field1Values} \cup {UndecodableResponse(0)}

\* responses to commands and to status queries
CommandResponses ==
    {Response(0, IntV(SUCCESS)), StatusResponse(0, IntV(SUCCESS), CleaningAt85)}

\* what arrives besides responses: garbage, a status broadcast, one whose
\* payload makes update_from_base_status raise
CommandBroadcasts ==
    {Garbage, Broadcast(BASE_STATUS, DockedAt80), Broadcast(BASE_STATUS, BadHealth)}

\* frames of the device while the keepalive loop runs: a broadcast, garbage
KeepaliveFrames == {Broadcast(BASE_STATUS, DockedAt80), Garbage}
\* const.py, in seconds
KEEPALIVE_INTERVAL == 15
\* the clock of the keepalive runs, in ticks
KeepaliveHorizon == 240

\* broadcasts read by a command without a listener: the live map, a robot
\* cleaning, a robot docked
DirectBroadcasts ==
    {Broadcast(DISPLAY_MAP, EmptyDecoded), Broadcast(BASE_STATUS, CleaningAt100),
     Broadcast(BASE_STATUS, DockedAt80)}

\* send_command timeouts, in ticks
CommandTimeouts == {1}
\* timeouts shorter and longer than the one second a direct recv() waits
DeadlineTimeouts == {1, 3}
LongestTimeout == CHOOSE t \in DeadlineTimeouts : \A u \in DeadlineTimeouts : u <= t
\* the deadlines are observed up to this many ticks
DeadlineHorizon == 4

\* wake() timeouts, in ticks: none, one wait, one wait and a part of a second
WakeTimeouts == {0, 5, WakeWaitSeconds * TicksPerSecond + 5}
\* the clock step and the horizon of the wake calls, in ticks
WakeStep == 5
WakeHorizon == 20

\* timeouts of the calls made on a client that may not be connected
OfflineTimeouts == {0, 1}
OfflineHorizon == 1
\* the commands are observed up to this many ticks
CommandHorizon == 2
\* what the coordinator's device broadcasts, and what it answers: a command
\* that does not apply, and the status of a robot cleaning or charged
CoordBroadcasts ==
    {Broadcast(BASE_STATUS, DockedAt80), Broadcast(BASE_STATUS, CleaningAt100)}
CoordResponses ==
    {Response(0, IntV(NOT_APPLICABLE)),
     StatusResponse(0, IntV(SUCCESS), CleaningAt85),
     StatusResponse(0, IntV(SUCCESS), CleaningAt100),
     StatusResponse(0, IntV(SUCCESS), ChargedAt100)}
\* the coordinator is observed up to this many ticks
CoordHorizon == 300
\* a device that is silent, or broadcasts, or answers with its status
FastPollBroadcasts == {Broadcast(BASE_STATUS, DockedAt80)}
FastPollResponses == {StatusResponse(0, IntV(SUCCESS), ChargedAt100)}
\* the fast polls are observed up to this many ticks
FastPollHorizon == 400
\* commands a device that still answers has left unanswered
MaxUnanswered == 2

(***************************************************************************)
(* Specifications                                                          *)
(***************************************************************************)
Init == CodecInit /\ StateInit /\ ClientInit

\* the frame codec on its own
CodecNext == BuildFrame \/ ParseBuilt \/ ParseRaw
CodecSpec == Init /\ [][CodecNext]_vars

\* the device state under status payloads
StateNext == UpdateBaseStatus(StatePayloads)
StateSpec == Init /\ [][StateNext]_vars

\* the device state under status responses and broadcasts
HandlerNext ==
    \/ UpdateBaseStatus(HandlerPayloads)
    \/ HandleBaseStatus(HandlerPayloads)
    \/ HandleDisplayMap
HandlerSpec == Init /\ [][HandlerNext]_vars

\* send_command on a connection, with and without the listener
CommandNext ==
    \/ Connect
    \/ PeerClose
    \/ StartListening
    \/ ListenerClosed
    \/ ListenerRead
    \/ DeviceSends(CommandBroadcasts)
    \/ DeviceAnswers(CommandResponses)
    \/ SendCommand({Command} \cup StatusQueries, CommandTimeouts)
    \/ CmdQueueGet
    \/ CmdQueueTimeout
    \/ CmdDirectRead
    \/ CmdDirectTimeout
    \/ CmdDirectClosed
    \/ Tick({1}, CommandHorizon)
CommandSpec == Init /\ [][CommandNext]_vars

\* commands answered with every kind of field 1
ResultNext ==
    \/ Connect
    \/ StartListening
    \/ ListenerRead
    \/ DeviceAnswers(ResultResponses)
    \/ SendCommand({Command}, CommandTimeouts)
    \/ CmdQueueGet
    \/ CmdDirectRead
ResultSpec == Init /\ [][ResultNext]_vars

\* a step of a send_command call that is waiting: the event loop resumes it
\* when its get() or recv() completes or its timer fires
CommandStep ==
    \/ CmdQueueGet
    \/ CmdQueueTimeout
    \/ CmdDirectRead
    \/ CmdDirectTimeout
    \/ CmdDirectClosed

\* send_command against its deadline: calls are made while their deadline
\* lies within the horizon
DeadlineNext ==
    \/ Connect
    \/ PeerClose
    \/ StartListening
    \/ ListenerClosed
    \/ ListenerRead
    \/ DeviceSends({Garbage, Broadcast(BASE_STATUS, BadHealth)})
    \/ DeviceAnswers({Response(0, IntV(SUCCESS))})
    \/ (now + LongestTimeout <= DeadlineHorizon /\ SendCommand({Command}, DeadlineTimeouts))
    \/ CommandStep
    \/ Tick({1}, DeadlineHorizon)
\* time passes, and a waiting call whose wait has ended is resumed
DeadlineSpec ==
    /\ Init
    /\ [][DeadlineNext]_vars
    /\ WF_vars(Tick({1}, DeadlineHorizon))
    /\ WF_vars(CommandStep)

\* send_command without a listener: the direct read takes the broadcasts
DirectNext ==
    \/ Connect
    \/ SendCommand({Command}, CommandTimeouts)
    \/ DeviceSends(DirectBroadcasts)
    \/ DeviceAnswers({Response(0, IntV(SUCCESS))})
    \/ CmdDirectRead
    \/ CmdDirectTimeout
    \/ Tick({1}, CommandHorizon)
DirectSpec == Init /\ [][DirectNext]_vars

\* send_command on a client whose listener and keepalive loop are running
BusyNext ==
    \/ Connect
    \/ StartListening
    \/ ListenerRead
    \/ SendCommand({Command}, CommandTimeouts)
    \/ cmd.pc = "queue" /\ DeviceAnswers({Response(0, IntV(SUCCESS))})
    \/ DeviceSends(KeepaliveFrames)
    \/ CmdQueueGet
    \/ CmdQueueTimeout
    \/ KeepaliveTick
    \/ Tick({1}, CommandHorizon)
BusySpec == Init /\ [][BusyNext]_vars

\* the keepalive loop beside the listener, the clock advancing by the
\* keepalive interval
KeepaliveNext ==
    \/ Connect
    \/ PeerClose
    \/ StartListening
    \/ ListenerClosed
    \/ ListenerRead
    \/ DeviceSends(KeepaliveFrames)
    \/ KeepaliveTick
    \/ Tick({KEEPALIVE_INTERVAL * TicksPerSecond}, KeepaliveHorizon)
KeepaliveSpec == Init /\ [][KeepaliveNext]_vars

\* wake() on a client with or without the listener
WakeNext ==
    \/ Connect
    \/ PeerClose
    \/ Disconnect
    \/ StartListening
    \/ ListenerClosed
    \/ ListenerRead
    \/ DeviceSends(CommandBroadcasts \cup {UndecodableBroadcast(BASE_STATUS)})
    \/ WakeCall(WakeTimeouts)
    \/ WakeObserve
    \/ WakeWaitEnd
    \/ Tick({WakeStep}, WakeHorizon)
WakeSpec == Init /\ [][WakeNext]_vars

\* every call of the client, connected or not
OfflineNext ==
    \/ Connect
    \/ PeerClose
    \/ StartListening
    \/ ListenerClosed
    \/ ListenerRead
    \/ DeviceAnswers({StatusResponse(0, IntV(SUCCESS), CleaningAt85)})
    \/ SendCommand({<<"get_status", TRUE>>}, {1})
    \/ CommandStep
    \/ SendRaw
    \/ WakeCall(OfflineTimeouts)
    \/ WakeWaitEnd
    \/ DiscoverCall(OfflineTimeouts)
    \/ DiscoverRead
    \/ DiscoverTimeout
    \/ DiscoverClosed
    \/ Tick({1}, OfflineHorizon)
OfflineSpec == Init /\ [][OfflineNext]_vars

\* connect(), start_listening() and disconnect() in any order
LifecycleNext ==
    \/ Connect
    \/ Disconnect
    \/ PeerClose
    \/ StartListening
    \/ ListenerConnected
    \/ ListenerConnectFails
    \/ ListenerClosed
    \/ ListenerBackoffDone
    \/ ListenerRead
    \/ DeviceSends(CommandBroadcasts)
LifecycleSpec == Init /\ [][LifecycleNext]_vars

\* the listener task through failed connects, closed connections, backoff
\* sleeps, disconnect() and cancellation
ReconnectNext ==
    \/ Connect
    \/ Disconnect
    \/ PeerClose
    \/ StartListening
    \/ ListenerConnected
    \/ ListenerConnectFails
    \/ ListenerClosed
    \/ ListenerBackoffDone
    \/ ListenerRead
    \/ DeviceSends(CommandBroadcasts)
    \/ CancelListener
ReconnectSpec == Init /\ [][ReconnectNext]_vars

\* the same where every backoff sleep ends (asyncio.sleep returns) and the
\* transport is reachable again: of the listener's connect attempts, tried
\* again and again, one succeeds
ReconnectFairSpec ==
    /\ ReconnectSpec
    /\ WF_vars(ListenerBackoffDone)
    /\ SF_vars(ListenerConnected)

\* the time until the next timer of a command, of wake() or of the
\* verification round is due
NextDeadline == IF cmd.pc = "queue" THEN cmd.deadline - now ELSE NextTimer

\* the coordinator from its setup through its polls on a device that may
\* stay silent: commands time out, wake() gives up, polls fail; a device that
\* has left more than MaxUnanswered commands unanswered answers no more
FastPollNext ==
    \/ AsyncSetup
    \/ AsyncUpdateData
    \/ CoordWake
    \/ CoordStatus
    \/ CoordAfterStatus
    \/ CmdQueueGet
    \/ CmdQueueTimeout
    \/ WakeObserve
    \/ WakeWaitEnd
    \/ cmd.pc = "queue" /\ Cardinality(unanswered) <= MaxUnanswered
                        /\ DeviceAnswers(FastPollResponses)
    \/ ~CoordResumes /\ DeviceSends(FastPollBroadcasts)
    \/ ~CoordResumes /\ ListenerRead
    \/ ~CoordResumes /\ Tick({NextDeadline}, FastPollHorizon)
FastPollSpec == Init /\ [][FastPollNext]_vars

\* the coordinator on its client: setup, polls, the verification round, the
\* listener's pushes; the device answers every command before its timeout (it
\* does so in deep sleep too) and the connection stays up; the clock moves
\* from one timer to the next
CoordNext ==
    \/ AsyncSetup
    \/ AsyncUpdateData
    \/ CoordWake
    \/ CoordStatus
    \/ CoordAfterStatus
    \/ CoordAfterStop
    \/ CoordAfterLocate
    \/ CoordAfterSleep
    \/ CoordAfterRequery
    \/ CmdQueueGet
    \/ WakeObserve
    \/ WakeWaitEnd
    \/ cmd.pc = "queue" /\ DeviceAnswers(CoordResponses)
    \/ ~CoordResumes /\ DeviceSends(CoordBroadcasts)
    \/ ~CoordResumes /\ ListenerRead
    \/ ~CoordResumes /\ KeepaliveCheck
    \/ ~CoordResumes /\ cmd.pc # "queue" /\ Tick({NextTimer}, CoordHorizon)
CoordSpec == Init /\ [][CoordNext]_vars

\* _async_update_data, lines 277-278: a poll begins; if the client is not
\* connected it awaits client.connect(), which suspends in websockets.connect()
AsyncUpdateDataBegins ==
    /\ coord.registered
    /\ coord.pc = "idle"
    /\ coord.polls < MaxPolls
    /\ Idle
    /\ coord' = [coord EXCEPT !.polls = @ + 1, !.round = "poll",
                              !.stop_result = "none",
                              !.pc = IF connected THEN "poll" ELSE "connecting"]
    /\ UNCHANGED <<connVars, response_queue, inbox, sent, unanswered, cmd, wake_call>>
    /\ UNCHANGED <<stateVars, codecVars>>

\* the poll's await client.connect() returns: connect() assigns the new
\* transport to _ws and sets the connected event (client.py lines 132-135)
PollConnectReturns ==
    /\ coord.pc = "connecting"
    /\ ws' = "open"
    /\ connected_event' = TRUE
    /\ inbox' = <<>>
    /\ coord' = [coord EXCEPT !.pc = "poll"]
    /\ outcome' = ""
    /\ UNCHANGED <<should_reconnect, listener_active, listen_pc, backoff, heartbeat_task,
                   keepalive_task, response_queue, sent, unanswered, cmd, wake_call>>
    /\ UNCHANGED <<state, robot_awake, last_broadcast_time, now>>
    /\ UNCHANGED codecVars

\* the poll's await client.connect() raises: UpdateFailed (lines 280-281)
PollConnectFails ==
    /\ coord.pc = "connecting"
    /\ coord' = [coord EXCEPT !.pc = "idle"]
    /\ outcome' = "UpdateFailed"
    /\ UNCHANGED <<connVars, response_queue, inbox, sent, unanswered, cmd, wake_call>>
    /\ UNCHANGED <<state, robot_awake, last_broadcast_time, now>>
    /\ UNCHANGED codecVars

\* the time until the next timer of a command, of wake() or of a round is due
ConnectTimer ==
    IF cmd.pc = "direct" THEN cmd.chunk_end - now ELSE NextDeadline

\* the coordinator's polls beside the listener's reconnect loop: the device
\* never broadcasts and answers every command it receives with its status;
\* the connection drops between two rounds of the coordinator, and the
\* listener's own connects succeed
ConnectNext ==
    \/ AsyncSetup
    \/ AsyncUpdateDataBegins
    \/ PollConnectReturns
    \/ PollConnectFails
    \/ CoordWake
    \/ CoordStatus
    \/ CoordAfterStatus
    \/ WakeWaitEnd
    \/ CmdQueueGet
    \/ CmdQueueTimeout
    \/ CmdDirectRead
    \/ CmdDirectTimeout
    \/ cmd.pc \in {"queue", "direct"} /\ DeviceAnswers(FastPollResponses)
    \/ coord.registered /\ coord.pc = "idle" /\ PeerClose
    \/ ListenerClosed
    \/ ListenerBackoffDone
    \/ ListenerConnected
    \/ ~CoordResumes /\ ListenerRead
    \/ ~CoordResumes /\ Tick({ConnectTimer}, CoordHorizon)
ConnectSpec == Init /\ [][ConnectNext]_vars

\* NarwalVacuum.async_start: client.start(), a send_command of clean/start_clean,
\* called by the user while a guard set by a verification round is running;
\* the coordinator takes no part in it
VacuumStart ==
    /\ coord.registered
    /\ coord.pc = "idle"
    /\ Idle
    /\ coord.stale_guard_until > now
    /\ cmd.op # "start"
    /\ CoordCommand("start")
    /\ UNCHANGED <<connVars, inbox, wake_call, coord, outcome>>
    /\ UNCHANGED <<state, robot_awake, last_broadcast_time, now>>
    /\ UNCHANGED codecVars

\* the coordinator with a user who starts a clean during the guard
StartNext ==
    \/ AsyncSetup
    \/ AsyncUpdateData
    \/ CoordWake
    \/ CoordStatus
    \/ CoordAfterStatus
    \/ CoordAfterStop
    \/ CoordAfterLocate
    \/ CoordAfterSleep
    \/ CoordAfterRequery
    \/ VacuumStart
    \/ CmdQueueGet
    \/ WakeObserve
    \/ WakeWaitEnd
    \/ cmd.pc = "queue" /\ DeviceAnswers(CoordResponses)
    \/ ~CoordResumes /\ DeviceSends(CoordBroadcasts)
    \/ ~CoordResumes /\ ListenerRead
    \/ ~CoordResumes /\ KeepaliveCheck
    \/ ~CoordResumes /\ cmd.pc # "queue" /\ Tick({NextTimer}, CoordHorizon)
StartSpec == Init /\ [][StartNext]_vars

Next ==
    \/ CodecNext \/ StateNext \/ HandlerNext \/ CommandNext \/ ResultNext
    \/ DeadlineNext \/ WakeNext \/ OfflineNext \/ LifecycleNext \/ CoordNext
    \/ KeepaliveNext \/ ReconnectNext \/ FastPollNext \/ DirectNext
    \/ StartNext \/ ConnectNext \/ BusyNext
Spec == Init /\ [][Next]_vars

(***************************************************************************)
(* Properties of the frame codec (CodecSpec)                               *)
(***************************************************************************)
\* byte length of the topic given to build_frame
TopicByteLen == Len(Utf8Encode(topic))

\* build_frame has been called / parse_frame has been called
BuildCalled == frame # NoFrame
ParseCalled == msg # NoMessage

\* C1: for every topic of 1..255 UTF-8 bytes and every payload, build_frame
\* succeeds and parse_frame of its result succeeds and returns exactly that
\* topic and that payload.
C1_RoundTrip ==
    /\ (BuildCalled /\ TopicByteLen \in 1..255) => frame.ok
    /\ (frame.ok /\ ParseCalled) =>
          /\ msg.ok
          /\ msg.topic = topic
          /\ msg.payload = payload

\* a 255-byte topic of 3-byte characters with the empty payload went round
C1_Witness ==
    /\ frame.ok /\ ParseCalled /\ msg.ok
    /\ TopicByteLen = 255 /\ Len(topic) = 85
    /\ payload = <<>>
    /\ msg.topic = topic

\* C2: parse_frame rejects in this precedence: shorter than 4 bytes, then
\* byte 0 not 0x01, then byte 2 neither 0x22 nor 0x2A, then topic length
\* beyond the bytes after the header; a buffer passing all four with a valid
\* UTF-8 topic is accepted.
C2_ParsePrecedence ==
    ParseCalled =>
        IF Len(data) < 4 THEN ~msg.ok /\ msg.err = "ProtocolError: too short"
        ELSE IF data[1] # 1 THEN ~msg.ok /\ msg.err = "ProtocolError: frame type"
        ELSE IF data[3] \notin {34, 42}
            THEN ~msg.ok /\ msg.err = "ProtocolError: protobuf field tag"
        ELSE IF data[4] > Len(data) - 4
            THEN ~msg.ok /\ msg.err = "ProtocolError: truncated"
        ELSE Utf8Valid(Slice(data, 4, 4 + data[4])) => msg.ok

\* a buffer with a wrong type byte, an unknown marker and a topic length
\* beyond its end was rejected for its type byte
C2_Witness ==
    /\ ParseCalled /\ ~msg.ok
    /\ Len(data) >= 4 /\ data[1] = 2 /\ data[3] = 51 /\ data[4] > Len(data) - 4
    /\ msg.err = "ProtocolError: frame type"

\* C3: build_frame raises ValueError and returns no frame for a topic of 0
\* or of more than 255 UTF-8 bytes, and accepts every topic of 1..255 bytes.
C3_BuildRejects ==
    BuildCalled =>
        IF TopicByteLen = 0 \/ TopicByteLen > 255
        THEN /\ ~frame.ok
             /\ frame.err \in {"ValueError: empty", "ValueError: too long"}
             /\ frame.bytes = <<>>
        ELSE frame.ok

\* a topic of 128 characters and 256 bytes was rejected
C3_Witness ==
    /\ BuildCalled /\ ~frame.ok
    /\ Len(topic) = 128 /\ TopicByteLen = 256
    /\ frame.err = "ValueError: too long"

C5_ParsedTopicNonEmpty ==
    (ParseCalled /\ msg.ok) => Len(Utf8Encode(msg.topic)) \in 1..255

(***************************************************************************)
(* Properties of the device state (StateSpec)                              *)
(***************************************************************************)
\* C6: in every device state, is_cleaning is false whenever is_paused or
\* is_returning is true.
C6_CleaningExcludesPausedAndReturning ==
    (state.is_paused \/ is_returning(state)) => ~is_cleaning(state)

\* C7 as stated: is_docked is true for docked and charged; for standby if and
\* only if field 11 = 2, field 47 = 3 or the dock sub-state = 1; false for
\* every other mode.
C7_DockedIffThreeSignals ==
    is_docked(state) <=>
        \/ state.working_status \in {DOCKED, CHARGED}
        \/ /\ state.working_status = STANDBY
           /\ \/ state.dock_field11 = 2
              \/ state.dock_field47 = 3
              \/ state.dock_sub_state = 1

\* C7 as amended: for standby, if and only if field 11 = 2, field 47 = 3, the
\* dock sub-state = 1 or the dock activity (field 3.12) is positive.
C7_DockedIffFourSignals ==
    is_docked(state) <=>
        \/ state.working_status \in {DOCKED, CHARGED}
        \/ /\ state.working_status = STANDBY
           /\ \/ state.dock_field11 = 2
              \/ state.dock_field47 = 3
              \/ state.dock_sub_state = 1
              \/ state.dock_activity > 0

\* standby, docked by the dock activity alone
C7_Witness ==
    /\ state.working_status = STANDBY
    /\ state.dock_activity > 0
    /\ state.dock_sub_state # 1 /\ state.dock_field11 = 1 /\ state.dock_field47 = 2
    /\ is_docked(state)

\* the payload last applied (update_from_base_status caches it first)
LastField3 == state.raw_base_status.k3

C9_StandbyDockingNotReturning ==
    ( /\ state.working_status = STANDBY
      /\ state.dock_sub_state = 2
      /\ ~state.is_returning_to_dock ) => ~is_returning(state)

(***************************************************************************)
(* Properties of the status updates (HandlerSpec)                          *)
(***************************************************************************)
\* C10: from every device state and for every status payload, applying the
\* payload twice (update_from_base_status, and the broadcast handler) leaves
\* the device state that applying it once leaves.
C10_Idempotent ==
    \A d \in HandlerPayloads :
        LET once == update_from_base_status(state, d).state
            handled == handle_base_status(state, d).state
        IN  /\ update_from_base_status(once, d).state = once
            /\ handle_base_status(handled, d).state = handled

\* the handler applied {3: {1: 4, 7: 1, 10: 2}} to a state that showed a live
\* map, and applying it again changes nothing
C10_Witness ==
    /\ robot_awake
    /\ LastField3.t = "dict" /\ LastField3.s1 = IntV(CLEANING) /\ LastField3.s7 = IntV(1)
    /\ state.is_returning_to_dock
    /\ state.map_display_data = None
    /\ state.battery_level = 85
    /\ handle_base_status(state, state.raw_base_status).state = state

(***************************************************************************)
(* Properties of the client's reads and commands (CommandSpec)             *)
(***************************************************************************)
\* a step in which the listener loop or send_command's direct read takes the
\* broadcast at the head of the socket, decodes it and handles it without error
BroadcastHandled ==
    /\ ListenerRead \/ CmdDirectRead
    /\ Head(inbox).kind = "bcast"
    /\ Head(inbox).decodable
    /\ dispatch(state, Head(inbox), FALSE).exc = ""

\* C14: every parsed non-response frame, read by the listener loop or by
\* send_command's direct read, is applied to the device state and sets the
\* robot-is-broadcasting flag.
C14_BroadcastAppliedAndFlagged ==
    [][BroadcastHandled =>
          /\ robot_awake'
          /\ state' \in {dispatch(state, Head(inbox), TRUE).state,
                         dispatch(state, Head(inbox), FALSE).state}]_vars

\* a send_command call has returned a response frame
CommandReturned == cmd.pc = "done" /\ cmd.op # "discover" /\ cmd.msg.kind = "resp"

\* C16 as stated: the frame a send_command call returns never answers an
\* earlier call that timed out.
C16_NeverReturnsEarlierAnswer ==
    CommandReturned => cmd.msg.re \notin cmd.timed_out

\* C16: send_command discards the responses that were queued when it was
\* called: none of them is the frame it returns, and the frame it returns
\* reached the client after the send.
C16_QueuedBeforeSendDiscarded ==
    CommandReturned =>
        \A i \in 1..Len(cmd.drained) : cmd.drained[i] # cmd.msg

\* a call found a stale response queued, discarded it and returned a later one
C16_Witness ==
    /\ CommandReturned
    /\ cmd.drained # <<>>
    /\ cmd.drained[1].re < cmd.id
    /\ cmd.msg.re = cmd.id

(***************************************************************************)
(* Properties of the command deadline (DeadlineSpec)                       *)
(***************************************************************************)
\* a send_command call has written its frame and waits for the response
CommandWaiting == cmd.pc \in {"queue", "direct"}
\* a send_command call that wrote its frame has ended
CommandEnded == cmd.pc = "done" /\ cmd.op # "discover" /\ cmd.wrote

WakeEnds == wake_call' # wake_call /\ wake_call'.pc = "done"

\* C15: wake(timeout) called on a connected client whose flag is not set, no
\* broadcast arriving before the timeout, returns False without raising and
\* leaves the device state as it was; wake() returns True only in a step in
\* which it finds the robot-is-broadcasting flag set.
C15_WakeFalseWithoutBroadcast ==
    [][WakeEnds =>
          /\ wake_call'.result = "true" => robot_awake
          /\ (wake_call.pc = "waiting" /\ ~wake_call'.broadcasts) =>
                 wake_call'.result = "false" /\ state' = wake_call'.before
          /\ (wake_call.pc # "waiting" /\ connected /\ ~robot_awake) =>
                 wake_call'.result = "false" /\ state' = state]_vars

\* a wake() call of more than one burst ended at its deadline, no broadcast
\* having arrived, on a client whose device state had been set before
C15_Witness ==
    /\ wake_call.pc = "done"
    /\ wake_call.result = "false"
    /\ wake_call.frames > WakeBurstFrames
    /\ ~wake_call.broadcasts
    /\ wake_call.before # NarwalState
    /\ state = wake_call.before

(***************************************************************************)
(* Properties of the calls on a client that is not connected (OfflineSpec) *)
(***************************************************************************)
\* the client is not connected: no transport, or the _connected event clear
NotConnected == ws = "none" \/ ~connected_event

\* a step that leaves the transport, the device state and the response queue
\* as they were
NothingWrittenOrChanged ==
    sent' = sent /\ state' = state /\ response_queue' = response_queue

\* C19: every command operation called while the client is not connected
\* (send_command and the calls built on it, send_raw, wake when the flag is
\* not set, discover_device_id) raises NarwalConnectionError, writes no frame
\* and leaves the device state and the response queue as they were.
C19_OfflineCallsRaise ==
    [][NotConnected =>
          /\ SendCommand({<<"get_status", TRUE>>}, {1}) =>
                 /\ cmd'.pc = "done" /\ cmd'.outcome = "NarwalConnectionError"
                 /\ NothingWrittenOrChanged
          /\ DiscoverCall(OfflineTimeouts) =>
                 /\ cmd'.pc = "done" /\ cmd'.outcome = "NarwalConnectionError"
                 /\ NothingWrittenOrChanged
          /\ SendRaw =>
                 outcome' = "NarwalConnectionError" /\ NothingWrittenOrChanged
          /\ (~robot_awake /\ WakeCall(OfflineTimeouts)) =>
                 /\ wake_call'.pc = "done"
                 /\ wake_call'.result = "NarwalConnectionError"
                 /\ NothingWrittenOrChanged]_vars

\* send_command raised the connection error on a client that had been
\* connected and had a response left in its queue
C19_Witness ==
    /\ NotConnected
    /\ cmd.pc = "done"
    /\ cmd.op = "get_status"
    /\ cmd.outcome = "NarwalConnectionError"
    /\ response_queue # <<>>
    /\ sent > 0

(***************************************************************************)
(* Properties of disconnect() (LifecycleSpec)                              *)
(***************************************************************************)
\* the client is connected, or one of its tasks is at work
ClientRunning ==
    \/ connected
    \/ listener_active
    \/ heartbeat_task = "running"
    \/ keepalive_task = "running"

\* C20: disconnect() can be called in every state of the client; when it
\* returns the client is not connected and the heartbeat, the keepalive and
\* the listener have stopped; after it (_should_reconnect is clear until
\* start_listening() is called anew) the client is connected again only by a
\* connect() of the caller.
C20_DisconnectIsFinal ==
    [][/\ ENABLED Disconnect
       /\ Disconnect => ~ClientRunning'
       /\ (~should_reconnect /\ ~should_reconnect' /\ ~ClientRunning /\ ClientRunning')
              => Connect]_vars

(***************************************************************************)
(* Properties of the result code (ResultSpec)                              *)
(***************************************************************************)
\* C18: a response whose field 1 int() rejects is returned as a success that
\* carries field 1 in its data; one whose field 1 is an integer has that
\* integer as result code, is a success exactly for SUCCESS and not applicable
\* exactly for NOT_APPLICABLE.
C18_NonIntegerIsSuccess ==
    (cmd.pc = "done" /\ cmd.msg.kind = "resp" /\ cmd.msg.decodable
         /\ cmd.msg.k1.t # "absent") =>
        LET field1 == cmd.msg.k1
            i == PyInt(field1)
        IN  IF i.exc # ""
            THEN success(cmd.resp) /\ cmd.resp.data_k1 = field1
            ELSE /\ cmd.resp.result_code = i.n
                 /\ success(cmd.resp) <=> i.n = SUCCESS
                 /\ not_applicable(cmd.resp) <=> i.n = NOT_APPLICABLE

(***************************************************************************)
(* Properties of the coordinator (CoordSpec)                               *)
(***************************************************************************)
\* the guard set by the override of a verification round has not run out
GuardActive == coord.stale_guard_until > 0 /\ now < coord.stale_guard_until

\* C13: once a verification round has overridden the mode to DOCKED, a
\* broadcast reporting the mode CLEANING that is handled within the guard
\* period leaves the mode of the device state, which is the state the
\* platform reads, DOCKED.
C13_GuardRejectsBroadcast ==
    [][(/\ ListenerRead
        /\ Head(inbox) = Broadcast(BASE_STATUS, CleaningAt100)
        /\ GuardActive
        /\ state.working_status = DOCKED)
            => state'.working_status = DOCKED]_vars

\* what only a broadcast is to change: the mode, the flags, the dock fields
ModeAndDock(s) ==
    <<s.working_status, s.is_paused, s.is_returning_to_dock, s.dock_sub_state,
      s.dock_activity, s.dock_presence, s.dock_field11, s.dock_field47>>

\* C11: a status response applied while the robot is not broadcasting updates
\* the battery level and the battery health only; the mode, the paused and
\* returning flags and the dock fields keep their values.
C11_AsleepResponseBatteryOnly ==
    [][(/\ CmdQueueGet
        /\ cmd.op = "get_status"
        /\ ~robot_awake
        /\ decode_response(Head(response_queue)).has_body)
            => ModeAndDock(state') = ModeAndDock(state)]_vars

\* a verification round in which stop() returned NOT_APPLICABLE ends
RoundEnds == CoordAfterRequery /\ coord.stop_result = "not_applicable"

\* C12 as stated: a verification round on a cleaning state in which stop()
\* returned NOT_APPLICABLE ends with the mode DOCKED, is_docked true,
\* is_cleaning false and is_returning false.
C12_RoundEndsDocked ==
    [][RoundEnds =>
          /\ state'.working_status = DOCKED
          /\ is_docked(state')
          /\ ~is_cleaning(state')
          /\ ~is_returning(state')]_vars

\* C12: such a round ends with the mode DOCKED or CHARGED, is_docked true and
\* is_cleaning false; a mode the re-query did not refresh to one of the two is
\* overridden to DOCKED with is_returning false, the guard is set for
\* STALE_GUARD_SECONDS and the platform is handed that state.
C12_RoundEndsDockedOrCharged ==
    [][RoundEnds =>
          /\ state'.working_status \in {DOCKED, CHARGED}
          /\ is_docked(state')
          /\ ~is_cleaning(state')
          /\ coord'.published = Some(state')
          /\ state.working_status \notin {DOCKED, CHARGED} =>
                /\ state'.working_status = DOCKED
                /\ ~is_returning(state')
                /\ coord'.stale_guard_until =
                       now + STALE_GUARD_SECONDS * TicksPerSecond]_vars

\* a round in which stop() returned NOT_APPLICABLE has just overridden the mode
C12_Witness ==
    /\ coord.pc = "idle"
    /\ coord.stop_result = "not_applicable"
    /\ coord.stale_guard_until = now + STALE_GUARD_SECONDS * TicksPerSecond
    /\ coord.published = Some(state)
    /\ state.working_status = DOCKED

(***************************************************************************)
(* Properties of update_from_base_status: absent fields (HandlerSpec)      *)
(***************************************************************************)
\* what field 3 with its sub-field 1 assigns
ModeFields(s) ==
    <<s.working_status, s.is_paused, s.is_returning_to_dock, s.dock_sub_state,
      s.dock_activity, s.dock_presence>>

\* C30: update_from_base_status changes only the fields whose source is in
\* the payload: without field 3, or without its sub-field 1, the mode, the
\* paused and returning flags, the dock sub-state, activity and presence are
\* unchanged; without field 2 the battery level is unchanged; without field
\* 11 or 47 that dock indicator is unchanged.
C30_AbsentFieldsPersist ==
    [][UpdateBaseStatus(HandlerPayloads) =>
          LET d == state'.raw_base_status
          IN  /\ ~(d.k3.t = "dict" /\ d.k3.s1.t # "absent") =>
                     ModeFields(state') = ModeFields(state)
              /\ d.k2.t = "absent" => state'.battery_level = state.battery_level
              /\ d.k11.t = "absent" => state'.dock_field11 = state.dock_field11
              /\ d.k47.t = "absent" => state'.dock_field47 = state.dock_field47]_vars

\* a payload carrying the battery alone has been applied to a state whose
\* mode and dock indicators came from earlier payloads
C30_Witness ==
    /\ state.raw_base_status = [EmptyDecoded EXCEPT !.k2 = Bits85]
    /\ state.battery_level = 85
    /\ state.working_status = STANDBY
    /\ state.dock_presence = 6
    /\ state.dock_field11 = 2
    /\ state.dock_field47 = 3

(***************************************************************************)
(* Properties of the handlers under malformed payloads (CommandSpec)       *)
(***************************************************************************)
\* C23: whatever the type or shape of the fields of a decoded payload, the
\* broadcast handler and the state update it runs complete without raising,
\* and the listener goes on reading its connection.
C23_PayloadNeverRaises ==
    [][(/\ ListenerRead
        /\ Head(inbox).kind = "bcast"
        /\ Head(inbox).decodable)
            => /\ outcome' = ""
               /\ listen_pc' = "reading"
               /\ listener_active'
               /\ connected']_vars

\* a step in which the listener loop or send_command's direct read takes a
\* frame that parse_frame rejects
GarbageRead == (ListenerRead \/ CmdDirectRead) /\ Head(inbox).kind = "garbage"

\* C22: a received frame that fails parsing is dropped by the listener and by
\* the direct read: the device state, the response queue, the
\* robot-is-broadcasting flag and the coordinator are unchanged, and reading
\* goes on on the same connection (the direct read until its deadline).
C22_GarbageDropped ==
    [][GarbageRead =>
          /\ UNCHANGED <<state, response_queue, robot_awake, last_broadcast_time,
                         coord, connVars>>
          /\ ListenerRead => cmd' = cmd
          /\ CmdDirectRead =>
                \/ cmd'.pc = "direct"
                \/ now >= cmd.deadline /\ cmd'.outcome = "NarwalCommandError"]_vars

\* a frame that fails parsing is at the head of the socket of a listener whose
\* robot is broadcasting and whose response queue holds a response
C22_Witness ==
    /\ listen_pc = "reading"
    /\ inbox # <<>>
    /\ Head(inbox).kind = "garbage"
    /\ robot_awake
    /\ state.working_status = DOCKED
    /\ response_queue # <<>>

\* C26: in the listener a parsed frame carrying the command-response marker
\* is appended to the response queue and changes nothing else (device state,
\* robot-is-broadcasting flag, last broadcast time, coordinator); a frame
\* carrying the other marker is never put on the response queue.
C26_ResponsesQueuedOnly ==
    [][ListenerRead =>
          IF Head(inbox).kind = "resp"
          THEN /\ response_queue' = Append(response_queue, Head(inbox))
               /\ UNCHANGED <<state, outcome, robot_awake, last_broadcast_time,
                              coord, connVars, cmd>>
          ELSE response_queue' = response_queue]_vars

\* the listener has queued a response while the robot was broadcasting
C26_Witness ==
    /\ listen_pc = "reading"
    /\ response_queue # <<>>
    /\ response_queue[Len(response_queue)].kind = "resp"
    /\ robot_awake
    /\ state.working_status = DOCKED
    /\ inbox = <<>>

(***************************************************************************)
(* Properties of the two readers of the transport (CommandSpec)            *)
(***************************************************************************)
\* C21: send_command's direct read (_wait_for_field5_response) is in progress
\* only while the listener's read loop is not running: never are both
\* suspended in a read of the same socket
C21_SingleReader == ~(cmd.pc = "direct" /\ listen_pc = "reading")

(***************************************************************************)
(* Properties of the keepalive loop (KeepaliveSpec)                        *)
(***************************************************************************)
\* the last broadcast is older than the stale timeout
BroadcastStale ==
    now - last_broadcast_time > BROADCAST_STALE_TIMEOUT * TicksPerSecond

\* C27: on a keepalive pass over an open connection (time.monotonic() is
\* positive, so a set flag goes with a positive broadcast time): with the flag
\* set and the last broadcast older than 45 s the flag is cleared and a whole
\* wake burst written in that pass; with the flag set and broadcasts fresh one
\* heartbeat frame is written and the flag stays; with the flag clear a whole
\* wake burst is written.  The flag is set only by the listener reading a
\* broadcast.
C27_KeepaliveTick ==
    [][/\ (KeepaliveTick /\ ws = "open" /\ (robot_awake => last_broadcast_time > 0)) =>
            IF robot_awake /\ BroadcastStale THEN
                ~robot_awake' /\ sent' = sent + WakeBurstFrames
            ELSE IF robot_awake THEN
                robot_awake' /\ sent' = sent + 1
            ELSE
                ~robot_awake' /\ sent' = sent + WakeBurstFrames
       /\ (~robot_awake /\ robot_awake') =>
            /\ ListenerRead
            /\ Head(inbox).kind = "bcast"]_vars

\* the robot broadcast, fell silent for more than the stale timeout, and a
\* keepalive pass has cleared the flag and written a wake burst
C27_Witness ==
    /\ keepalive_task = "running"
    /\ ws = "open"
    /\ ~robot_awake
    /\ last_broadcast_time > 0
    /\ BroadcastStale
    /\ sent >= WakeBurstFrames

(***************************************************************************)
(* Properties of the listener's retries (ReconnectSpec, ReconnectFairSpec) *)
(***************************************************************************)
RECURSIVE Pow2(_)
Pow2(n) == IF n = 0 THEN 1 ELSE 2 * Pow2(n - 1)

\* min(1 * 2^(k-1), 300): the base delay of the k-th consecutive sleep
BaseDelay(k) == Min(RECONNECT_INITIAL_DELAY * Pow2(k - 1), RECONNECT_MAX_DELAY)

\* C28: the base delay of the k-th consecutive backoff sleep is
\* min(1 * 2^(k-1), 300) seconds and the sleep lasts that plus a jitter in
\* [0, 1]; the base delay never leaves [1, 300]; it is the initial delay
\* whenever the listener has connected and reads
C28_RetryDelay ==
    /\ backoff.retry_delay >= RECONNECT_INITIAL_DELAY
    /\ backoff.retry_delay <= RECONNECT_MAX_DELAY
    /\ listen_pc = "backoff" =>
          /\ backoff.retries >= 1
          /\ backoff.retry_delay = BaseDelay(backoff.retries)
    /\ (listen_pc = "connecting" /\ backoff.retries >= 1) =>
          backoff.wait - BaseDelay(backoff.retries) * TicksPerSecond
              \in 0..TicksPerSecond
    /\ listen_pc \in {"reading", "closing"} =>
          backoff.retry_delay = RECONNECT_INITIAL_DELAY

\* the listener connects again after its tenth consecutive sleep, the first
\* one of the maximal delay
C28_Witness ==
    /\ listen_pc = "connecting"
    /\ backoff.retries = 10
    /\ backoff.retry_delay = RECONNECT_MAX_DELAY
    /\ backoff.wait = RECONNECT_MAX_DELAY * TicksPerSecond + 1

\* the listener task has ended
ListenerEnded == listen_pc \in {"done", "cancelled"}

\* C29 as stated: a cancelled start_listening() stops at once with the
\* connected, listener-active and robot-is-broadcasting flags clear and the
\* heartbeat and keepalive tasks not running, and makes no further connect
\* attempt or backoff sleep
C29_CancelClearsAll ==
    [][/\ CancelListener =>
            /\ listen_pc' = "cancelled"
            /\ ~connected'
            /\ ~listener_active'
            /\ ~robot_awake'
            /\ heartbeat_task' # "running"
            /\ keepalive_task' # "running"
       /\ (listen_pc = "cancelled" /\ listen_pc' # "cancelled") => StartListening]_vars

\* C29, amended: the same, the connected flag being clear unless the task was
\* cancelled in its backoff sleep after the caller had connected again
C29_CancelStops ==
    [][/\ CancelListener =>
            /\ listen_pc' = "cancelled"
            /\ connected' => (listen_pc = "backoff" /\ connected)
            /\ ~listener_active'
            /\ ~robot_awake'
            /\ heartbeat_task' # "running"
            /\ keepalive_task' # "running"
       /\ (listen_pc = "cancelled" /\ listen_pc' # "cancelled") => StartListening]_vars

\* the listener was cancelled while it read an open connection
C29_Witness ==
    /\ listen_pc = "cancelled"
    /\ ws = "open"
    /\ ~connected_event
    /\ ~listener_active
    /\ heartbeat_task = "done"
    /\ keepalive_task = "done"

\* C24: a failed connect or a closed connection never ends start_listening():
\* the listener tears down and sleeps its backoff, and the task ends only after
\* disconnect() has cleared _should_reconnect or by cancellation; with the
\* transport reachable again, a listener that waits or connects comes to read
\* on a connected client (unless it is ended first)
C24_ListenerRetries ==
    /\ [][/\ ((ListenerConnectFails \/ ListenerClosed) /\ should_reconnect) =>
                listen_pc' = "backoff"
          /\ (~ListenerEnded /\ ListenerEnded') =>
                (~should_reconnect \/ CancelListener)]_vars
    /\ (listen_pc \in {"backoff", "connecting"}) ~>
          \/ listen_pc = "reading" /\ connected /\ listener_active
          \/ ListenerEnded

\* the listener reads again on a connected client after a teardown: the robot
\* had broadcast (the state holds its mode) and has not done so since
C24_Witness ==
    /\ listen_pc = "reading"
    /\ connected
    /\ listener_active
    /\ should_reconnect
    /\ heartbeat_task = "running"
    /\ state.working_status = DOCKED
    /\ ~robot_awake

(***************************************************************************)
(* Properties of the fast polling (FastPollSpec)                           *)
(***************************************************************************)
\* C25: fast polling entered at startup always ends: the coordinator that has
\* handed a known mode to the platform (from a broadcast or a poll) polls at
\* the normal interval, and so does the coordinator that has made 6 polls
C25_FastPollingEnds ==
    /\ (coord.published # None /\ coord.published[1].working_status # UNKNOWN) =>
          coord.update_interval = POLL_INTERVAL
    /\ (coord.pc = "idle" /\ coord.polls >= FAST_POLL_MAX) =>
          coord.update_interval = POLL_INTERVAL

(***************************************************************************)
(* Properties of update_from_base_status: the overlays (StateSpec)         *)
(***************************************************************************)
\* an integer overlay sub-field of a payload: its value, 0 when it is absent
OverlayValue(v) == IF v.t = "int" THEN v.n ELSE 0

\* the payload last applied carries field 3 with the mode alone
ModeAlone(s, mode) ==
    s.raw_base_status =
        [EmptyDecoded EXCEPT !.k3 = Field3(IntV(mode), Absent, Absent, Absent,
                                           Absent, Absent)]

\* C31: a payload carrying field 3 with the mode sub-field replaces the mode
\* and every overlay together, whatever they were: the paused and returning
\* flags, the dock sub-state, activity and presence take the payload's values,
\* false or 0 for an absent sub-field; so a payload {mode: cleaning} alone
\* yields is_cleaning, and {mode: charged} alone yields not is_returning
C31_OverlaysReplaced ==
    [][UpdateBaseStatus(StatePayloads) =>
          LET f == state'.raw_base_status.k3
          IN  (f.t = "dict" /\ f.s1.t # "absent") =>
                  /\ state'.is_paused = (OverlayValue(f.s2) # 0)
                  /\ state'.is_returning_to_dock = (OverlayValue(f.s7) # 0)
                  /\ state'.dock_sub_state = OverlayValue(f.s10)
                  /\ state'.dock_activity = OverlayValue(f.s12)
                  /\ state'.dock_presence = OverlayValue(f.s3)
                  /\ (ModeAlone(state', CLEANING) => is_cleaning(state'))
                  /\ (ModeAlone(state', CHARGED) => ~is_returning(state'))]_vars

\* a payload {mode: charged} alone has been applied (the dock indicator of an
\* earlier payload is still held): the robot is docked and not returning
C31_Witness ==
    /\ ModeAlone(state, CHARGED)
    /\ state.working_status = CHARGED
    /\ ~state.is_returning_to_dock
    /\ state.dock_sub_state = 0
    /\ state.dock_field11 = 2
    /\ ~is_returning(state)

(***************************************************************************)
(* Properties of the derived predicates (StateSpec)                        *)
(***************************************************************************)
\* C39: in every device state reached by applying base-status payloads, at
\* most one of is_cleaning, is_returning and is_docked is true
C39_PredicatesExclusive ==
    /\ ~(is_cleaning(state) /\ is_returning(state))
    /\ ~(is_cleaning(state) /\ is_docked(state))
    /\ ~(is_returning(state) /\ is_docked(state))

(***************************************************************************)
(* Properties of the direct read against the listener (DirectSpec)         *)
(***************************************************************************)
\* C40: a broadcast applied by send_command's direct read leaves the device
\* state that the listener's handler leaves when it applies the same frame to
\* the same state (so every sequence of broadcasts ends in the same state on
\* both paths)
C40_DirectReadAsListener ==
    [][(CmdDirectRead /\ Head(inbox).kind = "bcast" /\ Head(inbox).decodable) =>
          state' = dispatch(state, Head(inbox), TRUE).state]_vars

(***************************************************************************)
(* Properties of the guard's end (CoordSpec)                               *)
(***************************************************************************)
\* the listener hands a decoded broadcast to the coordinator's push callback
BroadcastPushed ==
    /\ ListenerRead
    /\ Head(inbox).kind = "bcast"
    /\ Head(inbox).decodable
    /\ coord.registered
    /\ outcome' = ""

\* C32: a broadcast handled when no guard is active, be it that none was set
\* or that the one set has run out (at its expiry or later), is accepted: the
\* guard is cleared and the device state is handed to the platform
C32_GuardTimeBounded ==
    [][(BroadcastPushed /\ ~GuardActive) =>
          /\ coord'.stale_guard_until = 0
          /\ coord'.published = Some(state')]_vars

\* the guard of a correction has run out and a broadcast reporting cleaning
\* has been accepted at that instant or later
C32_Witness ==
    /\ coord.registered
    /\ coord.stale_guard_until = 0
    /\ now >= STALE_GUARD_SECONDS * TicksPerSecond
    /\ last_broadcast_time = now
    /\ robot_awake
    /\ coord.published = Some(state)
    /\ state.working_status = CLEANING

(***************************************************************************)
(* Properties of a broadcast during the verification round (CoordSpec)     *)
(***************************************************************************)
\* C34: a verification round begins only when the device is not broadcasting;
\* when the round's re-query has ended and the robot-is-broadcasting flag is
\* set, a broadcast has been handled during the round, and the round then
\* neither overwrites the device state nor starts a guard.
C34_BroadcastStaysAuthoritative ==
    [][(CoordAfterRequery /\ robot_awake) =>
          /\ state' = state
          /\ coord'.stale_guard_until = coord.stale_guard_until]_vars

(***************************************************************************)
(* Properties of the force-stop (CoordSpec)                                *)
(***************************************************************************)
\* a stop() is issued by this step
StopIssued == cmd'.op = "stop" /\ cmd'.id # cmd.id

\* C36: whenever the coordinator issues a force-stop, the
\* robot-is-broadcasting flag is false and the mode of the device state is
\* CLEANING or CLEANING_ALT at that moment, whatever broadcasts were handled
\* before.
C36_StopOnlyWhenSilent ==
    [][StopIssued =>
          /\ ~robot_awake
          /\ state.working_status \in {CLEANING, CLEANING_ALT}]_vars
\* a poll issues the force-stop to a robot that did broadcast before and has
\* fallen silent since
C36_Witness ==
    /\ coord.pc = "fix_stop"
    /\ coord.round = "poll"
    /\ cmd.op = "stop"
    /\ cmd.wrote
    /\ cmd.pc = "queue"
    /\ last_broadcast_time > 0
    /\ ~robot_awake

(***************************************************************************)
(* Properties of the polls after a correction (CoordSpec)                  *)
(***************************************************************************)
\* a verification round has overridden the mode, its guard is running, and no
\* broadcast has been handled since the override
AsleepSinceCorrection ==
    /\ GuardActive
    /\ ~robot_awake
    /\ last_broadcast_time < coord.stale_guard_until - STALE_GUARD_SECONDS * TicksPerSecond

\* C37: after a verification round has corrected the mode to DOCKED, while
\* the device stays asleep and the guard is active, no step of a poll changes
\* the mode away from DOCKED or issues stop() or locate() again.
C37_PollsKeepCorrection ==
    [][(AsleepSinceCorrection /\ ~robot_awake') =>
          /\ state'.working_status = DOCKED
          /\ ~StopIssued
          /\ ~(cmd'.op = "locate" /\ cmd'.id # cmd.id)]_vars

(***************************************************************************)
(* Properties of the connections of a client (ConnectSpec)                 *)
(***************************************************************************)
\* C38: no connect() is in progress for the poll while one is in progress for
\* the listener, and whenever a connect() of either returns and assigns its
\* new transport to the client, the transport it replaces is not an open one:
\* every connection that was opened is the client's current one or is closed.
C38_OneConnection ==
    [][/\ ~(coord'.pc = "connecting" /\ listen_pc' = "connecting")
       /\ (PollConnectReturns \/ ListenerConnected) => ws # "open"]_vars

(***************************************************************************)
(* Properties of the frames written during a command (BusySpec)            *)
(***************************************************************************)
\* C35: while a send_command call is waiting for its response, no pass of the
\* keepalive loop writes a frame to the transport, neither its heartbeat nor
\* its wake burst (which holds get_device_base_status and get_device_info).
C35_NoWriteWhileWaiting ==
    [][(KeepaliveTick /\ sent' > sent) => cmd.pc \notin {"queue", "direct"}]_vars

(***************************************************************************)
(* Properties of a start during the guard (StartSpec)                      *)
(***************************************************************************)
\* C33: after a start command that the user issued during the guard period
\* has been answered, a broadcast reporting the mode CLEANING that the
\* listener hands to the coordinator is published to the platform, without
\* waiting for the end of the guard.
C33_StartClearsGuard ==
    [][(/\ BroadcastPushed
        /\ Head(inbox) = Broadcast(BASE_STATUS, CleaningAt100)
        /\ cmd.op = "start" /\ cmd.pc = "done" /\ cmd.outcome = "")
            => coord'.published = Some(state')]_vars


====
